---------------------------- MODULE Spec2Model ----------------------------
(***************************************************************************)
(* A model of simmon (src/simmon/simmon.py): the main process (Monitor,   *)
(* Tracker, Toggle), the toggle window process (_toggle_window) and the   *)
(* live-view rendering process (_live_view_process).                      *)
(*                                                                         *)
(* Python lists are sequences; a 0-based Python index i is position i+1.  *)
(* None is the number 0 where a handle is a session number (sessions are  *)
(* numbered from 1).                                                       *)
(*                                                                         *)
(* The three processes interleave at their operations on shared objects:  *)
(* one call on the Manager list proxy (counts[i], counts[i] = v,          *)
(* counts.append), one put or get on a multiprocessing Queue.  Code that  *)
(* touches only process-local state is folded into the step of the shared *)
(* operation that precedes it.                                             *)
(***************************************************************************)
EXTENDS Integers, Sequences, FiniteSets, TLC

\* ------------------------------------------------------------- bounds
MaxToggles == 2      \* Toggle objects constructed in one group
MaxPresses == 2      \* button presses, over all buttons

\* toggled() calls made directly by the program, over all Toggles: one more
\* than the presses, so that a call after the last press is consumed happens
MaxPolls == MaxPresses + 1

\* close() calls, over all Toggles: every Toggle once and one of them again
MaxCloses == MaxToggles + 1

\* Toggles of a Monitor: its live-view and plot toggles and one it adds
MaxMonitorToggles == MaxToggles + 1

MaxUpdates == 3      \* successful Tracker.update calls, over all Trackers
MaxSessions == 2     \* live-view sessions started

\* The program's inputs.  DepCounts: the number of dependent-variable names
\* it gives to the first, the second, ... Tracker it makes.  ArgCounts: how
\* many dependent values a call of Tracker.update passes.  The value a call
\* passes is the number of tuples tracked so far (0, 1, 2, ...), so that the
\* samples of a run are all different and the first one is all zeros.
DepCounts == <<1, 2>>

ArgCounts == 0..3

\* the same for a program with a single Tracker
OneDepCount == <<1>>

OneArgCounts == 1..2

\* ---------------------------------------------------------- variables
VARIABLES
    counts,        \* Toggle.counts: the Manager().list() shared by the group
    toggles,       \* the Toggle objects of the main process, in creation order
    in_q,          \* Toggle.__in_q: the instruction queue
    columns,       \* _toggle_window: columns
    buttons,       \* _toggle_window: buttons (each with the index its handler captured)
    closed,        \* _toggle_window: closed
    disabled,      \* _toggle_window: the buttons put in state "disabled"
    window,        \* _toggle_window: "open" | "destroyed" | "error"
    wpc,           \* window process: "idle" | "pressing" (inside on_toggle)
    wBtn,          \* the button whose handler is running (position in buttons)
    wRead,         \* the value on_toggle read from counts
    pc,            \* main process: where it is
    tgObj,         \* the Toggle whose toggled() is running (position in toggles)
    tgRead,        \* the value toggled() read from counts for the decrement
    tgCaller,      \* who called toggled(): "user" | "refresh" (_refresh_monitor_toggles)
    ret,           \* what the program's last call returned or raised:
                   \* "none" | "True" | "False" | the error
    presses,       \* history: handler runs finished, per button
    polls,         \* history: toggled() calls begun by the program, per Toggle
    late,          \* history: a press overlapped or followed the first toggled()
    sent,          \* history: the instructions put on the instruction queue
    applied,       \* history: the instructions the window process has applied
    seen,          \* history: the counter value the running toggle check found
                   \* for the live-view toggle (0 outside a check)
    ids,           \* Monitor.ids
    trackers,      \* Monitor.trackers: the Tracker objects, in creation order
    live_view_queue,    \* Monitor.live_view_queue: None or the session's queue
    live_view_process,  \* Monitor.live_view_process: None or the session's process
    sessions,      \* every live-view session started: its queue and its process
    joinRet,       \* where the main process goes on when close_live_view returns
    plots,         \* history: Monitor.plot calls made by _refresh_monitor_toggles
    files,         \* the files of the Monitor's data directory
    locked,        \* another program holds the autosave file: open() is denied
    appending,     \* the Tracker whose update is in _append_to_out_file, or None
    depth,         \* the calls of _append_to_out_file on the stack
    fresh,         \* a second Monitor, for load_from_dir: its trackers and ids,
                   \* whether load_from_dir was called on it and what the call raised
    enable_toggles,     \* Monitor(enable_toggles=...): the Monitor has the attributes
                        \* live_view_toggle and plot_toggle
    monitor_toggles,    \* Monitor.toggles: the Toggles of the Monitor (positions in toggles)
    closing,       \* Monitor.close_toggles: the Toggles its loop has closed so far
    finalized      \* history: Monitor.finalize has returned

toggleVars == <<counts, toggles, in_q>>
winVars == <<columns, buttons, closed, disabled, window, wpc, wBtn, wRead>>
mainVars == <<pc, tgObj, tgRead, tgCaller, ret>>
histVars == <<presses, polls, late, sent, applied, seen>>
storeVars == <<files, locked, appending, depth, fresh>>
cfgVars == <<enable_toggles, monitor_toggles, closing, finalized>>
monVars == <<ids, trackers, live_view_queue, live_view_process, sessions, joinRet, plots,
             storeVars, cfgVars>>
vars == <<toggleVars, winVars, mainVars, histVars, monVars>>

\* ------------------------------------------------------------ helpers
None == 0

\* list[i] and list[i] = v for a 0-based index i
At(list, i) == list[i + 1]

SetAt(list, i, v) == [list EXCEPT ![i + 1] = v]

\* the sum of a sequence of numbers
RECURSIVE SeqSum(_)
SeqSum(s) == IF s = <<>> THEN 0 ELSE Head(s) + SeqSum(Tail(s))

\* The signal numbers of the instruction queue.  An instruction is one queue
\* entry here: <<ADD>> for the items 1, name, desc and <<CLOSE, id>> for the
\* items 2, id.  The main process is the only sender and puts the items of an
\* instruction one after the other, and refresh takes them with blocking
\* get calls, so the items of one instruction are always applied together.
ADD == 1

CLOSE == 2

\* ------------------------------------------------------- Toggle (main)
\* A Toggle object: its id and its local tally; close_sent is history
\* (the close() calls made on it).
NewToggleObject(id, main) ==
    [id |-> id, toggle_count |-> 0, main |-> main, close_sent |-> 0]

\* the shared counter of Toggle k
CounterOf(k) == At(counts, toggles[k].id)

\* Toggle.toggled, the test of line 553
toggled_test_mut(c) == c >= 0

toggled_test(c) == c > 0

\* Toggle.toggled, the value line 555 writes back
toggled_decrement_mut(r) == 0

toggled_decrement(r) == r - 1

\* Toggle.__init__, line 536: the id of a Toggle that joins a group
new_id_mut(cs) == Len(cs) - 1

new_id(cs) == Len(cs)

\* Toggle.__init__ with a main_toggle: the id is the table's length, a zero
\* is appended, and the ADD instruction is sent (name and desc are not modelled).
toggle_init ==
    /\ toggles' = Append(toggles, NewToggleObject(new_id(counts), FALSE))
    /\ counts' = Append(counts, 0)
    /\ in_q' = Append(in_q, <<ADD>>)
    /\ sent' = Append(sent, <<ADD>>)
    /\ presses' = Append(presses, 0)
    /\ polls' = Append(polls, 0)
    /\ late' = Append(late, FALSE)

\* The program makes a Toggle of the group itself: Toggle(main_toggle).
NewToggle ==
    /\ pc = "idle"
    /\ Len(toggles) < MaxToggles
    /\ toggle_init
    /\ ret' = "none"
    /\ UNCHANGED <<winVars, pc, tgObj, tgRead, tgCaller, applied, seen, monVars>>

\* a close() whose put waits until the queue is empty
close_mut(k) ==
    /\ in_q = <<>>
    /\ in_q' = Append(in_q, <<CLOSE, toggles[k].id>>)
    /\ sent' = Append(sent, <<CLOSE, toggles[k].id>>)
    /\ toggles' = [toggles EXCEPT ![k].close_sent = @ + 1]

\* Toggle.close: (CLOSE, id) is put on the instruction queue.
close(k) ==
    /\ in_q' = Append(in_q, <<CLOSE, toggles[k].id>>)
    /\ sent' = Append(sent, <<CLOSE, toggles[k].id>>)
    /\ toggles' = [toggles EXCEPT ![k].close_sent = @ + 1]

\* The program calls close() on one of its Toggles.
Close(k) ==
    /\ pc = "idle"
    /\ SeqSum([i \in 1..Len(toggles) |-> toggles[i].close_sent]) < MaxCloses
    /\ close(k)
    /\ ret' = "none"
    /\ UNCHANGED <<counts, winVars, pc, tgObj, tgRead, tgCaller, presses, polls, late,
                   applied, seen, monVars>>

\* Toggle.toggled, line 554: self.toggle_count += 1
tally_mut(n) == n + 2

tally(n) == n + 1

\* Toggle.toggled, line 553 and 554: read the counter and test it; when it
\* is positive the local tally is incremented before the decrement starts.
toggled_begin(k, caller, onFalse) ==
    IF toggled_test(At(counts, toggles[k].id))
    THEN /\ toggles' = [toggles EXCEPT ![k].toggle_count = tally(@)]
         /\ pc' = "tg_read"
         /\ tgObj' = k
         /\ tgCaller' = caller
         /\ UNCHANGED <<tgRead, ret>>
    ELSE /\ pc' = onFalse
         /\ ret' = IF caller = "user" THEN "False" ELSE ret
         /\ UNCHANGED <<toggles, tgObj, tgRead, tgCaller>>

\* The program calls toggled() on one of its Toggles.
UserToggled(k) ==
    /\ pc = "idle"
    /\ SeqSum(polls) < MaxPolls
    /\ toggled_begin(k, "user", "idle")
    /\ polls' = [polls EXCEPT ![k] = @ + 1]
    /\ late' = [late EXCEPT ![k] = @ \/ (wpc = "pressing" /\ wBtn = k)]
    /\ UNCHANGED <<counts, in_q, winVars, presses, sent, applied, seen, monVars>>

\* Toggle.toggled, line 555: counts[id] -= 1 first reads counts[id] ...
ToggledRead ==
    /\ pc = "tg_read"
    /\ tgRead' = At(counts, toggles[tgObj].id)
    /\ pc' = "tg_write"
    /\ UNCHANGED <<toggleVars, winVars, tgObj, tgCaller, ret, histVars, monVars>>

\* ... and then writes the value read minus one; toggled() returns True.
toggled_write ==
    /\ counts' = SetAt(counts, toggles[tgObj].id, toggled_decrement(tgRead))
    /\ ret' = IF tgCaller = "user" THEN "True" ELSE ret
    /\ tgObj' = None
    /\ tgRead' = 0
    /\ tgCaller' = "user"

\* toggled() called by the program returns True to it.
ToggledWrite ==
    /\ pc = "tg_write"
    /\ tgCaller = "user"
    /\ toggled_write
    /\ pc' = "idle"
    /\ UNCHANGED <<toggles, in_q, winVars, histVars, monVars>>

\* ------------------------------------------------ toggle window process
\* on_toggle of the button add_button made: the index it increments is the
\* value of columns captured when the button was made (line 982).
on_toggle_index_mut(captured, cols) == cols - 1

on_toggle_index(captured, cols) == captured

\* A press of an enabled button: on_toggle reads counts[index] ...
Press(b) ==
    /\ window = "open"
    /\ wpc = "idle"
    /\ b \in 1..Len(buttons)
    /\ b \notin disabled
    /\ SeqSum(presses) < MaxPresses
    /\ wpc' = "pressing"
    /\ wBtn' = b
    /\ wRead' = At(counts, on_toggle_index(buttons[b], columns))
    /\ late' = [late EXCEPT ![b] = @ \/ polls[b] > 0]
    /\ UNCHANGED <<toggleVars, columns, buttons, closed, disabled, window,
                   mainVars, presses, polls, sent, applied, seen, monVars>>

\* ... and writes the value read plus one (line 985).
PressWrite ==
    /\ wpc = "pressing"
    /\ counts' = SetAt(counts, on_toggle_index(buttons[wBtn], columns), wRead + 1)
    /\ wpc' = "idle"
    /\ wBtn' = None
    /\ wRead' = 0
    /\ presses' = [presses EXCEPT ![wBtn] = @ + 1]
    /\ UNCHANGED <<toggles, in_q, columns, buttons, closed, disabled, window,
                   mainVars, polls, late, sent, applied, seen, monVars>>

\* all(closed), line 1035
all_closed_mut(cl) == \E i \in 1..Len(cl) : cl[i]

all_closed(cl) == \A i \in 1..Len(cl) : cl[i]

\* The window's state as refresh sees and changes it.
WinState == [columns |-> columns, buttons |-> buttons, closed |-> closed,
             disabled |-> disabled, window |-> window, in_q |-> in_q,
             applied |-> applied]

\* add_button: the new button captures index = columns.
add_button(w) ==
    [w EXCEPT !.buttons = Append(@, w.columns),
              !.closed = Append(@, FALSE),
              !.columns = @ + 1]

\* refresh, line 1040: the button is put in state "disabled"
disable_mut(d, b) == IF b \in d THEN d \ {b} ELSE d \cup {b}

disable(d, b) == d \cup {b}

\* refresh, lines 1031 to 1040: one CLOSE instruction.
close_button(w, id) ==
    IF id >= Len(w.closed)
    THEN [w EXCEPT !.window = "error"]            \* IndexError in the callback
    ELSE LET c == SetAt(w.closed, id, TRUE)
         IN  IF all_closed(c)
             THEN [w EXCEPT !.closed = c, !.window = "destroyed"]
             ELSE [w EXCEPT !.closed = c, !.disabled = disable(@, id + 1)]

\* Queue.get, line 1024: the entry taken and the entries left
get_mut(q) == <<q[Len(q)], SubSeq(q, 1, Len(q) - 1)>>

get(q) == <<Head(q), Tail(q)>>

\* refresh as a loop that ends after its first instruction
drain_mut(queued) ==
    IF queued.in_q = <<>> \/ queued.window # "open"
    THEN queued
    ELSE LET signal == get(queued.in_q)[1]
             done == [queued EXCEPT !.in_q = get(@)[2], !.applied = Append(@, signal)]
         IN  IF signal[1] = ADD THEN add_button(done) ELSE close_button(done, signal[2])

\* refresh, lines 1023 to 1040: the loop takes instructions while the queue
\* is not empty and leaves it at the break after window.destroy().
\* (w ranges over the one-element set so that the state of the window is
\* evaluated once at every turn of the loop.)
RECURSIVE drain(_)
drain(queued) ==
    CHOOSE r \in
      { IF w.in_q = <<>> \/ w.window # "open"
        THEN w
        ELSE LET signal == get(w.in_q)[1]
                 rest == [w EXCEPT !.in_q = get(@)[2]]
                 done == [rest EXCEPT !.applied = Append(@, signal)]
             IN  IF signal[1] = ADD
                 THEN drain(add_button(done))
                 ELSE drain(close_button(done, signal[2]))
        : w \in {queued} } : TRUE

\* a refresh that is rescheduled whatever became of the window
Refresh_mut ==
    /\ wpc = "idle"
    /\ window \in {"open", "destroyed"}
    /\ LET w == drain([WinState EXCEPT !.window = "open"])
       IN  /\ columns' = w.columns
           /\ buttons' = w.buttons
           /\ closed' = w.closed
           /\ disabled' = w.disabled
           /\ window' = IF window = "destroyed" THEN window ELSE w.window
           /\ in_q' = w.in_q
           /\ applied' = w.applied
    /\ UNCHANGED <<counts, toggles, wpc, wBtn, wRead, mainVars, presses, polls, late,
                   sent, seen, monVars>>

\* The periodic refresh of the window (rescheduled while keep_listening).
Refresh ==
    /\ window = "open"
    /\ wpc = "idle"
    /\ LET w == drain(WinState)
       IN  /\ columns' = w.columns
           /\ buttons' = w.buttons
           /\ closed' = w.closed
           /\ disabled' = w.disabled
           /\ window' = w.window
           /\ in_q' = w.in_q
           /\ applied' = w.applied
    /\ UNCHANGED <<counts, toggles, wpc, wBtn, wRead, mainVars, presses, polls, late,
                   sent, seen, monVars>>

\* --------------------------------------------- a Toggle group on its own
\* No Monitor is constructed: Toggle works independently of it.
NoMonitor ==
    /\ ids = 0
    /\ trackers = <<>>
    /\ live_view_queue = None
    /\ live_view_process = None
    /\ sessions = <<>>
    /\ joinRet = "idle"
    /\ plots = <<>>
    /\ files = {}
    /\ locked = FALSE
    /\ appending = None
    /\ depth = 0
    /\ fresh = [loaded |-> FALSE, trackers |-> <<>>, ids |-> 0, ret |-> "none"]
    /\ closing = 0
    /\ finalized = FALSE

\* After Toggle(None): the main toggle has id 0, the table holds one zero,
\* and the window process has made the first button.
InitToggle ==
    /\ counts = <<0>>
    /\ toggles = <<NewToggleObject(0, TRUE)>>
    /\ in_q = <<>>
    /\ columns = 1
    /\ buttons = <<0>>
    /\ closed = <<FALSE>>
    /\ disabled = {}
    /\ window = "open"
    /\ wpc = "idle"
    /\ wBtn = None
    /\ wRead = 0
    /\ pc = "idle"
    /\ tgObj = None
    /\ tgRead = 0
    /\ tgCaller = "user"
    /\ ret = "none"
    /\ presses = <<0>>
    /\ polls = <<0>>
    /\ late = <<FALSE>>
    /\ sent = <<>>
    /\ applied = <<>>
    /\ seen = 0
    /\ NoMonitor
    /\ enable_toggles = FALSE
    /\ monitor_toggles = <<>>

\* Presses and toggled() calls on the Toggles of a group.
NextToggle ==
    \/ NewToggle
    \/ \E k \in 1..Len(toggles) : UserToggled(k)
    \/ ToggledRead
    \/ ToggledWrite
    \/ \E b \in 1..Len(buttons) : Press(b)
    \/ PressWrite
    \/ Refresh

SpecToggle == InitToggle /\ [][NextToggle]_vars

\* The life of the window: Toggles made and closed, buttons pressed.
NextWindow ==
    \/ NewToggle
    \/ \E k \in 1..Len(toggles) : Close(k)
    \/ \E b \in 1..Len(buttons) : Press(b)
    \/ PressWrite
    \/ Refresh

SpecWindow == InitToggle /\ [][NextWindow]_vars

\* Toggles closed while their buttons are pressed and the program calls
\* toggled() on them, before and after the close.
NextClosed ==
    \/ NewToggle
    \/ \E k \in 1..Len(toggles) : Close(k)
    \/ \E k \in 1..Len(toggles) : UserToggled(k)
    \/ ToggledRead
    \/ ToggledWrite
    \/ \E b \in 1..Len(buttons) : Press(b)
    \/ PressWrite
    \/ Refresh

SpecClosed == InitToggle /\ [][NextClosed]_vars

\* The same, with the scheduling of the window process: refresh reschedules
\* itself every 3000 ms while keep_listening (line 1043) and the event loop
\* runs it when no handler is running; a handler that has started finishes.
SpecRefresh ==
    /\ InitToggle
    /\ [][NextWindow]_vars
    /\ WF_vars(Refresh)
    /\ WF_vars(PressWrite)

\* ------------------------------------------------------------ Monitor
\* Monitor.__init__ with toggles: live_view_toggle is the main Toggle and the
\* first of Monitor.toggles, plot_toggle the second.
LvToggle == 1

PlotToggle == 2

\* A message of the data queue is a tuple (id, data); the None that
\* close_live_view puts is written as the tuple of length 0.
NoneMsg == <<>>

\* Python's truth value of a message: None is false, and so would an empty
\* tuple be; a tuple with elements is true whatever the elements are
truthy_mut(info) == Len(info) > 0 /\ info[1] # 0

truthy(info) == Len(info) > 0

\* Python's truth value of a handle (a Queue object or None)
is_set_mut(h) == FALSE

is_set(h) == h # None

\* Queue.put on a session's queue
put(ss, q, m) == [ss EXCEPT ![q].queue = Append(@, m)]

\* the tuples of all updates so far
RECURSIVE DataCount(_)
DataCount(trs) == IF trs = <<>> THEN 0 ELSE Len(Head(trs).data) + DataCount(Tail(trs))

\* what the program may pass for the next Tracker it makes: its number of
\* dependent names, or none at all
NextDepCounts(roster) ==
    {0} \cup {roster[k] : k \in {Len(trackers) + 1} \cap DOMAIN roster}

\* ------------------------------------------------------ text and files
\* A text (a name, a file name, the content of a file) is a sequence of
\* characters; the ending ".csv" counts as one character.
\* sep.join(texts)
RECURSIVE join(_, _)
join(texts, sep) ==
    IF texts = <<>> THEN <<>>
    ELSE IF Len(texts) = 1 THEN texts[1]
    ELSE texts[1] \o <<sep>> \o join(Tail(texts), sep)

\* text.split(sep): the pieces between the separators, empty ones included
RECURSIVE split(_, _)
split(text, sep) ==
    IF \A i \in 1..Len(text) : text[i] # sep THEN <<text>>
    ELSE LET i == CHOOSE j \in 1..Len(text) :
                      text[j] = sep /\ \A k \in 1..(j - 1) : text[k] # sep
         IN  <<SubSeq(text, 1, i - 1)>> \o split(SubSeq(text, i + 1, Len(text)), sep)

\* text.replace(old, '') and text.replace(old, new) for one character
remove(text, old) == SelectSeq(text, LAMBDA c : c # old)

replace(text, old, new) == [i \in 1..Len(text) |-> IF text[i] = old THEN new ELSE text[i]]

Digits == <<"0", "1", "2", "3", "4", "5", "6", "7", "8", "9">>

\* str(v) of an integer
RECURSIVE str_nat(_)
str_nat(n) ==
    IF n < 10 THEN <<Digits[n + 1]>> ELSE str_nat(n \div 10) \o <<Digits[(n % 10) + 1]>>

str(v) == IF v < 0 THEN <<"-">> \o str_nat(0 - v) ELSE str_nat(v)

\* float(text) of the decimal text of an integer
RECURSIVE float_nat(_)
float_nat(text) ==
    IF text = <<>> THEN 0
    ELSE 10 * float_nat(SubSeq(text, 1, Len(text) - 1))
         + (CHOOSE d \in 0..9 : Digits[d + 1] = text[Len(text)])

float(text) == IF text[1] = "-" THEN 0 - float_nat(Tail(text)) ELSE float_nat(text)

\* the names of the files of one directory of the data directory: the
\* untitled trackers' files are in the directory "no_title" stands for
names_in(fs, title) == {f.name : f \in {g \in fs : g.title = title}}

\* _determine_tracker_filename: the labels joined by '-' and the ending,
\* with a '+' in front for as long as the directory has a file of that name
RECURSIVE unique_name(_, _)
unique_name(name, taken) ==
    IF name \in taken THEN unique_name(<<"+">> \o name, taken) ELSE name

determine_tracker_filename(ind_var_name, dep_var_names, taken, ending) ==
    replace(unique_name(join(<<ind_var_name>> \o dep_var_names, "-") \o <<ending>>, taken),
            ":", "-")

\* the file of a directory with a name, as a set of at most one file
file_at(fs, title, name) == {f \in fs : f.title = title /\ f.name = name}

\* ------------------------------------------------------------ Tracker
\* Monitor.tracker, line 96: the id of the next Tracker
next_ids_mut(n) == n

next_ids(n) == n + 1

\* Monitor.tracker and Tracker.__init__: no dependent name raises ValueError
\* before the Monitor registers anything; else the Tracker gets id self.ids,
\* its reference to the Monitor (monitor: "self", or "None" once
\* open_live_view has taken it away) and with autosave the path of its file.
\* saved is history: save() was called and no update was made since.
tracker(ind_var_name, dep_var_names, title, autosave) ==
    /\ pc = "idle"
    /\ IF dep_var_names = <<>>
       THEN /\ ret' = "ValueError"
            /\ UNCHANGED <<ids, trackers>>
       ELSE /\ trackers' = Append(trackers,
                   [_id |-> ids, ndep |-> Len(dep_var_names), data |-> <<>>,
                    ind_var_name |-> ind_var_name, dep_var_names |-> dep_var_names,
                    title |-> title, autosave |-> autosave, monitor |-> "self",
                    path |-> IF autosave
                             THEN determine_tracker_filename(ind_var_name, dep_var_names,
                                      names_in(files, title), ".csv")
                             ELSE <<>>,
                    saved |-> FALSE])
            /\ ids' = next_ids(ids)
            /\ ret' = "none"
    /\ UNCHANGED <<toggleVars, winVars, pc, tgObj, tgRead, tgCaller, histVars,
                   live_view_queue, live_view_process, sessions, joinRet, plots, storeVars, cfgVars>>

\* the names the program gives: x for the independent variable, y and z for
\* the dependent ones
DepNames == <<<<"y">>, <<"z">>>>

\* Monitor.tracker("x", "y", ...) with ndep dependent names, no title and no autosave
NewTracker(ndep) == tracker(<<"x">>, SubSeq(DepNames, 1, ndep), "no_title", FALSE)

\* Tracker.update, line 417: the number of values against the number of names
arity_ok_mut(n, tr) == n >= tr.ndep

arity_ok(n, tr) == n = tr.ndep

\* Tracker.update, lines 429 and 430: the sample goes to the live view when
\* the Monitor has a queue, and the toggle check of line 433 follows.  A
\* Tracker whose monitor is None raises AttributeError at line 429.
\* enq is history: the samples put on the session's queue.
enqueue(t, curr_data) ==
    IF trackers[t].monitor = "None"
    THEN /\ ret' = "AttributeError"
         /\ pc' = "idle"
         /\ UNCHANGED sessions
    ELSE /\ sessions' = IF is_set(live_view_queue)
                        THEN [put(sessions, live_view_queue, <<trackers[t]._id, curr_data>>)
                                 EXCEPT ![live_view_queue].enq =
                                            Append(@, <<trackers[t]._id, curr_data>>)]
                        ELSE sessions
         /\ ret' = "none"
         /\ pc' = "rf_lv"

\* Tracker.update(ind_var, *dep_vars): lines 417 to 430.  With autosave the
\* line is first appended to the file, in the steps from "append".  The
\* toggle check of line 433 follows in the steps from "rf_lv".
update(t, ind_var, dep_vars) ==
    /\ pc = "idle"
    /\ IF ~arity_ok(Len(dep_vars), trackers[t])
       THEN /\ ret' = "Exception"
            /\ UNCHANGED <<trackers, sessions, pc, appending, depth>>
       ELSE LET curr_data == <<ind_var>> \o dep_vars
            IN  /\ DataCount(trackers) < MaxUpdates
                /\ trackers' = [trackers EXCEPT ![t].data = Append(@, curr_data),
                                                ![t].saved = FALSE]
                /\ IF trackers[t].autosave
                   THEN /\ pc' = "append"
                        /\ appending' = t
                        /\ depth' = 1
                        /\ ret' = "none"
                        /\ UNCHANGED sessions
                   ELSE /\ enqueue(t, curr_data)
                        /\ UNCHANGED <<appending, depth>>
    /\ UNCHANGED <<toggleVars, winVars, tgObj, tgRead, tgCaller, histVars,
                   ids, live_view_queue, live_view_process, joinRet, plots,
                   files, locked, fresh,
                   cfgVars>>

\* Tracker.update(v, v, ..., v) with n dependent values
Update(t, v, n) == update(t, v, [i \in 1..n |-> v])

\* ------------------------------------------------- autosave, save, load
\* The interpreter's limit on nested calls (sys.getrecursionlimit(), 1000
\* unless the program changes it), scaled down.
RecursionLimit == 4

\* lines 426 and 453: ','.join([str(v) for v in line]) and the newline
line_of(tuple) == join([i \in 1..Len(tuple) |-> str(tuple[i])], ",") \o <<"\n">>

\* Tracker.save, lines 451 to 453: the content written
RECURSIVE content_of(_)
content_of(data) ==
    IF data = <<>> THEN <<>> ELSE line_of(Head(data)) \o content_of(Tail(data))

\* open(path, 'a') and write: the file is created when it does not exist
append_to(fs, title, name, text) ==
    IF file_at(fs, title, name) = {}
    THEN fs \cup {[title |-> title, name |-> name, content |-> text]}
    ELSE {IF f.title = title /\ f.name = name
          THEN [f EXCEPT !.content = @ \o text] ELSE f : f \in fs}

\* Another program opens the autosave file of a Tracker (the file exists),
\* and closes it.
Lock ==
    /\ ~locked
    /\ \E t \in 1..Len(trackers) :
           /\ trackers[t].autosave
           /\ file_at(files, trackers[t].title, trackers[t].path) # {}
    /\ locked' = TRUE
    /\ UNCHANGED <<toggleVars, winVars, mainVars, histVars, ids, trackers,
                   live_view_queue, live_view_process, sessions, joinRet, plots,
                   files, appending, depth, fresh,
                   cfgVars>>

Unlock ==
    /\ locked
    /\ locked' = FALSE
    /\ UNCHANGED <<toggleVars, winVars, mainVars, histVars, ids, trackers,
                   live_view_queue, live_view_process, sessions, joinRet, plots,
                   files, appending, depth, fresh,
                   cfgVars>>

\* Tracker._append_to_out_file, one call: open() is denied while the file is
\* locked, and the method calls itself after the warning and the sleep; a
\* call beyond the interpreter's limit raises RecursionError, which no frame
\* catches.  When open() succeeds the line is written, every frame returns,
\* and update goes on with line 429.
AppendToOutFile ==
    /\ pc = "append"
    /\ IF locked
       THEN IF depth < RecursionLimit
            THEN /\ depth' = depth + 1
                 /\ UNCHANGED <<pc, ret, appending, files, sessions>>
            ELSE /\ ret' = "RecursionError"
                 /\ pc' = "idle"
                 /\ depth' = 0
                 /\ appending' = None
                 /\ UNCHANGED <<files, sessions>>
       ELSE LET tr == trackers[appending]
            IN  /\ files' = append_to(files, tr.title, tr.path,
                                      line_of(tr.data[Len(tr.data)]))
                /\ enqueue(appending, tr.data[Len(tr.data)])
                /\ depth' = 0
                /\ appending' = None
    /\ UNCHANGED <<toggleVars, winVars, tgObj, tgRead, tgCaller, histVars, ids, trackers,
                   live_view_queue, live_view_process, joinRet, plots, locked, fresh,
                   cfgVars>>

\* Tracker.save() with no path given: the data is written to a file with a
\* name no file of the directory has, and the autosave file, if the Tracker
\* has one, is removed (remove raises when the file is not there or is held
\* by another program).  A program saves a Tracker after its updates.
Save(t) ==
    /\ pc = "idle"
    /\ ~trackers[t].saved
    /\ LET tr == trackers[t]
           name == determine_tracker_filename(tr.ind_var_name, tr.dep_var_names,
                                              names_in(files, tr.title), ".csv")
           written == append_to(files \ file_at(files, tr.title, name), tr.title, name,
                                content_of(tr.data))
       IN  IF tr.path = <<>>
           THEN /\ files' = written
                /\ ret' = "none"
           ELSE IF file_at(written, tr.title, tr.path) = {}
           THEN /\ files' = written
                /\ ret' = "FileNotFoundError"
           ELSE IF locked
           THEN /\ files' = written
                /\ ret' = "PermissionError"
           ELSE /\ files' = written \ file_at(written, tr.title, tr.path)
                /\ ret' = "none"
    /\ trackers' = [trackers EXCEPT ![t].saved = TRUE]
    /\ UNCHANGED <<toggleVars, winVars, pc, tgObj, tgRead, tgCaller, histVars, ids,
                   live_view_queue, live_view_process, sessions, joinRet, plots,
                   locked, appending, depth, fresh,
                   cfgVars>>

\* file.readlines(): the lines of a content, each without its newline
\* (line 1084 removes it)
readlines(content) ==
    LET pieces == split(content, "\n")
    IN  IF pieces[Len(pieces)] = <<>> THEN SubSeq(pieces, 1, Len(pieces) - 1) ELSE pieces

\* _load_to_tracker: a tuple of floats for every line
load_to_tracker(content) ==
    LET lines == readlines(content)
    IN  [k \in 1..Len(lines) |->
            LET ds == split(lines[k], ",") IN [i \in 1..Len(ds) |-> float(ds[i])]]

\* load_from_dir, lines 276 to 278, for one file of the data directory: the
\* labels are taken from the file's name, Monitor.tracker makes the Tracker
\* (ValueError with no dependent name) and the file's lines become its data.
load_file(m, f) ==
    LET labels == split(remove(remove(f.name, "+"), ".csv"), "-")
    IN  IF Len(labels) < 2
        THEN [m EXCEPT !.ret = "ValueError"]
        ELSE [m EXCEPT !.trackers = Append(@, [_id |-> m.ids,
                                               ind_var_name |-> labels[1],
                                               dep_var_names |-> Tail(labels),
                                               data |-> load_to_tracker(f.content)]),
                       !.ids = next_ids(@)]

\* lines 275 to 278: the files of the data directory, in the order walk
\* gives them (any order; here an arbitrary fixed one), until a call raises
RECURSIVE load_files(_, _)
load_files(m, fs) ==
    IF fs = {} \/ m.ret # "none" THEN m
    ELSE LET f == CHOOSE g \in fs : TRUE
         IN  load_files(load_file(m, f), fs \ {f})

\* Monitor.load_from_dir(dir_path) on the second Monitor, with the first
\* Monitor's directory.  The directories of the titles come first: for the
\* first file in one of them str.replace is called with one argument (line
\* 271), which raises TypeError.
load_from_dir(m, fs) ==
    IF \E f \in fs : f.title # "no_title"
    THEN [m EXCEPT !.loaded = TRUE, !.ret = "TypeError"]
    ELSE load_files([m EXCEPT !.loaded = TRUE], fs)

Load ==
    /\ pc = "idle"
    /\ ~fresh.loaded
    /\ fresh' = load_from_dir(fresh, files)
    /\ ret' = fresh'.ret
    /\ UNCHANGED <<toggleVars, winVars, pc, tgObj, tgRead, tgCaller, histVars, ids, trackers,
                   live_view_queue, live_view_process, sessions, joinRet, plots,
                   files, locked, appending, depth,
                   cfgVars>>

\* open_live_view, lines 155 to 157: tracker.monitor = None for every Tracker
detach(trs) == [k \in 1..Len(trs) |-> [trs[k] EXCEPT !.monitor = "None"]]

\* lines 176 to 178: tracker.monitor = self for every Tracker
restore(trs) == [k \in 1..Len(trs) |-> [trs[k] EXCEPT !.monitor = "self"]]

\* What the attributes of the Monitor hold when Process.start() copies it
\* for the new process (line 173): the three toggle attributes were set to
\* None (lines 163 to 165), live_view_queue is the new Queue (line 168) and
\* live_view_process the Process being started (line 171); the Trackers are
\* the detached ones.
monitor_copy(trs) ==
    [toggles |-> "None",
     live_view_toggle |-> "None",
     plot_toggle |-> "None",
     live_view_queue |-> "Queue",
     live_view_process |-> "Process",
     tracker_monitors |-> [k \in 1..Len(trs) |-> trs[k].monitor]]

\* _live_view_process, lines 612 to 619: the state the process starts with,
\* from the copy of the Monitor it is given.  figure is None or the number of
\* the figure shown (the first, the second, ...); stale: the chart changed
\* since it was last drawn; limits: the x and y limits of each subplot.
\* copy is the Monitor the process was given.
\* History: stop_sent (None was put on the queue), received (the tracker ids
\* of the samples taken from the queue), snapshot (the data of the copy's
\* Trackers when the process started) and enq (enqueue).
NewSession ==
    LET data_of == [i \in {trackers[k]._id : k \in 1..Len(trackers)} |->
                       (CHOOSE tr \in {trackers[k] : k \in 1..Len(trackers)} :
                            tr._id = i).data]
    IN  [queue |-> <<>>,
         state |-> "running",
         id_to_tracker |-> data_of,
         trackers |-> <<>>,
         id_to_axes |-> <<>>,
         limits |-> <<>>,
         figure |-> None,
         stale |-> FALSE,
         copy |-> monitor_copy(detach(trackers)),
         stop_sent |-> FALSE,
         received |-> <<>>,
         snapshot |-> data_of,
         enq |-> <<>>]

\* Monitor.open_live_view with the toggle attributes: a new queue and a new
\* process replace the Monitor's handles (lines 168 to 173); the Trackers'
\* references are taken away before and put back after.  Monitor.toggles,
\* live_view_toggle and plot_toggle are put back as they were (lines 160 to
\* 162 and 181 to 183).
open_live_view ==
    /\ sessions' = Append(sessions, NewSession)
    /\ live_view_queue' = Len(sessions) + 1
    /\ live_view_process' = Len(sessions) + 1
    /\ trackers' = restore(detach(trackers))

\* Monitor.close_live_view, line 190
live_view_is_closed_mut(q) == FALSE

live_view_is_closed(q) == ~is_set(q)

\* Process.join, line 194: returns when the process has exited
join_returns_mut(s) == TRUE

join_returns(s) == s.state = "done"

\* Monitor.close_live_view up to the join: lines 190 to 193.
close_live_view(retTo) ==
    IF live_view_is_closed(live_view_queue)
    THEN /\ pc' = retTo
         /\ ret' = "none"
         /\ UNCHANGED <<sessions, joinRet>>
    ELSE IF live_view_queue = None
    THEN /\ pc' = "idle"                       \* None has no put
         /\ ret' = "AttributeError"
         /\ UNCHANGED <<sessions, joinRet>>
    ELSE /\ sessions' = [put(sessions, live_view_queue, NoneMsg)
                            EXCEPT ![live_view_queue].stop_sent = TRUE]
         /\ pc' = "join"
         /\ joinRet' = retTo
         /\ UNCHANGED ret

\* The program calls open_live_view.  On a Monitor made with
\* enable_toggles=False the attribute live_view_toggle does not exist: line
\* 161 raises AttributeError, after the loop of lines 155 to 157.
OpenLiveView ==
    /\ pc = "idle"
    /\ IF enable_toggles
       THEN /\ Len(sessions) < MaxSessions
            /\ open_live_view
            /\ ret' = "none"
       ELSE /\ trackers' = detach(trackers)
            /\ ret' = "AttributeError"
            /\ UNCHANGED <<sessions, live_view_queue, live_view_process>>
    /\ UNCHANGED <<toggleVars, winVars, pc, tgObj, tgRead, tgCaller, histVars,
                   ids, joinRet, plots, storeVars, cfgVars>>

\* The program calls close_live_view.
CloseLiveView ==
    /\ pc = "idle"
    /\ close_live_view("idle")
    /\ UNCHANGED <<toggleVars, winVars, tgObj, tgRead, tgCaller, histVars,
                   ids, trackers, live_view_queue, live_view_process, plots, storeVars, cfgVars>>

\* Monitor.close_live_view, lines 194 to 196: the join and the release.
Join ==
    /\ pc = "join"
    /\ join_returns(sessions[live_view_process])
    /\ live_view_queue' = None
    /\ live_view_process' = None
    /\ pc' = joinRet
    /\ joinRet' = "idle"
    /\ ret' = "none"
    /\ seen' = 0
    /\ UNCHANGED <<toggleVars, winVars, tgObj, tgRead, tgCaller, presses, polls, late,
                   sent, applied, ids, trackers, sessions, plots, storeVars, cfgVars>>

\* Monitor.add_toggle, line 116: hasattr(self, 'live_view_toggle')
has_toggles_mut(e) == TRUE

has_toggles(e) == e

\* Monitor.add_toggle: ReferenceError on a Monitor made with
\* enable_toggles=False; else a Toggle of the live-view toggle's group is
\* made and appended to Monitor.toggles.
AddToggle ==
    /\ pc = "idle"
    /\ IF ~has_toggles(enable_toggles)
       THEN /\ ret' = "ReferenceError"
            /\ UNCHANGED <<toggleVars, presses, polls, late, sent, monitor_toggles>>
       ELSE /\ Len(toggles) < MaxMonitorToggles
            /\ toggle_init
            /\ monitor_toggles' = Append(monitor_toggles, Len(toggles) + 1)
            /\ ret' = "none"
    /\ UNCHANGED <<winVars, pc, tgObj, tgRead, tgCaller, applied, seen,
                   ids, trackers, live_view_queue, live_view_process, sessions, joinRet,
                   plots, storeVars, enable_toggles, closing, finalized>>

\* Tracker.save() of a Tracker with no autosave file, lines 446 to 454: the
\* data is written to a file with a name no file of the directory has
save_files(fs, tr) ==
    LET name == determine_tracker_filename(tr.ind_var_name, tr.dep_var_names,
                                           names_in(fs, tr.title), ".csv")
    IN  append_to(fs \ file_at(fs, tr.title, name), tr.title, name, content_of(tr.data))

\* Monitor.finalize, lines 220 to 223: every Tracker without autosave is saved
RECURSIVE save_all(_, _)
save_all(fs, trs) ==
    IF trs = <<>> THEN fs
    ELSE save_all(IF Head(trs).autosave THEN fs ELSE save_files(fs, Head(trs)), Tail(trs))

\* Monitor.finalize, line 210: close_live_view, which goes on with
\* close_toggles when it returns.
Finalize ==
    /\ pc = "idle"
    /\ ~finalized
    /\ close_live_view("closing")
    /\ UNCHANGED <<toggleVars, winVars, tgObj, tgRead, tgCaller, histVars,
                   ids, trackers, live_view_queue, live_view_process, plots, storeVars,
                   cfgVars>>

\* Monitor.close_toggles, lines 126 and 127: one close() of the loop over
\* Monitor.toggles.  After the loop finalize saves the Trackers' data (the
\* plots, the config file and the summary file are not modelled) and returns.
CloseToggles ==
    /\ pc = "closing"
    /\ IF closing < Len(monitor_toggles)
       THEN /\ close(monitor_toggles[closing + 1])
            /\ closing' = closing + 1
            /\ UNCHANGED <<pc, ret, trackers, files, finalized>>
       ELSE /\ files' = save_all(files, trackers)
            /\ trackers' = [k \in 1..Len(trackers) |->
                               [trackers[k] EXCEPT !.saved = @ \/ ~trackers[k].autosave]]
            /\ closing' = 0
            /\ finalized' = TRUE
            /\ pc' = "idle"
            /\ ret' = "none"
            /\ UNCHANGED <<toggles, in_q, sent>>
    /\ UNCHANGED <<counts, winVars, tgObj, tgRead, tgCaller, presses, polls, late,
                   applied, seen, ids, live_view_queue, live_view_process, sessions,
                   joinRet, plots, locked, appending, depth, fresh, enable_toggles,
                   monitor_toggles>>

\* _refresh_monitor_toggles, line 767: live_view_toggle.toggled()
RefreshLv ==
    /\ pc = "rf_lv"
    /\ IF enable_toggles
       THEN /\ toggled_begin(LvToggle, "refresh", "rf_plot")
            /\ seen' = CounterOf(LvToggle)
       ELSE /\ pc' = "rf_plot"                  \* getattr gives False
            /\ UNCHANGED <<toggles, tgObj, tgRead, tgCaller, ret, seen>>
    /\ UNCHANGED <<counts, in_q, winVars, presses, polls, late, sent, applied, monVars>>

\* _refresh_monitor_toggles, line 774: plot_toggle.toggled()
RefreshPlot ==
    /\ pc = "rf_plot"
    /\ IF enable_toggles
       THEN toggled_begin(PlotToggle, "refresh", "idle")
       ELSE /\ pc' = "idle"                     \* getattr gives False
            /\ UNCHANGED <<toggles, tgObj, tgRead, tgCaller, ret>>
    /\ UNCHANGED <<counts, in_q, winVars, histVars, monVars>>

\* toggled() called by _refresh_monitor_toggles returns True to it.
ToggledWriteRefresh ==
    /\ pc = "tg_write"
    /\ tgCaller = "refresh"
    /\ toggled_write
    /\ pc' = IF tgObj = LvToggle THEN "lv_act" ELSE "plot_act"
    /\ UNCHANGED <<toggles, in_q, winVars, histVars, monVars>>

\* _refresh_monitor_toggles, line 768: toggle_count % 2 is true
is_odd_mut(n) == n % 2 = 0

is_odd(n) == n % 2 = 1

\* _refresh_monitor_toggles, lines 768 to 771: the parity of toggle_count
\* opens or closes the live view.
LvAct ==
    /\ pc = "lv_act"
    /\ IF is_odd(toggles[LvToggle].toggle_count)
       THEN /\ Len(sessions) < MaxSessions
            /\ open_live_view
            /\ pc' = "rf_plot"
            /\ UNCHANGED <<ret, joinRet>>
       ELSE /\ close_live_view("rf_plot")
            /\ UNCHANGED <<live_view_queue, live_view_process, trackers>>
    /\ seen' = IF pc' = "rf_plot" THEN 0 ELSE seen
    /\ UNCHANGED <<toggleVars, winVars, tgObj, tgRead, tgCaller, presses, polls, late,
                   sent, applied, ids, plots, storeVars, cfgVars>>

\* a dict's keys keep the order of their first insertion
RECURSIVE first_seen(_)
first_seen(names) ==
    IF names = <<>> THEN <<>>
    ELSE LET r == first_seen(SubSeq(names, 1, Len(names) - 1))
             n == names[Len(names)]
         IN  IF \E i \in 1..Len(r) : r[i] = n THEN r ELSE Append(r, n)

\* Monitor.tracker, lines 98 to 101: Monitor.titled_trackers, its titles in
\* the order of their first Tracker and under each the Trackers (their ids)
\* in the order of their creation
titled_keys(trs) == first_seen([i \in 1..Len(trs) |-> trs[i].title])

titled_trackers(trs, title) ==
    LET under == SelectSeq(trs, LAMBDA tr : tr.title = title)
    IN  [i \in 1..Len(under) |-> under[i]._id]

\* _refresh_monitor_toggles, lines 775 to 785: the arguments of the plot
\* call: every title but "no_title", then, when there is an untitled
\* Tracker, the untitled Trackers grouped by ind_var_name, the groups in the
\* order of their first Tracker.  The mutant puts the untitled Trackers into
\* one group.
plot_titles_mut(trs) ==
    LET titles == SelectSeq(titled_keys(trs), LAMBDA title : title # "no_title")
    IN  [i \in 1..Len(titles) |-> [title |-> titles[i]]]
        \o (IF \E i \in 1..Len(trs) : trs[i].title = "no_title"
            THEN <<[trackers |-> titled_trackers(trs, "no_title")]>>
            ELSE <<>>)

plot_titles(trs) ==
    LET titles == SelectSeq(titled_keys(trs), LAMBDA title : title # "no_title")
        untitled == SelectSeq(trs, LAMBDA tr : tr.title = "no_title")
        names == first_seen([i \in 1..Len(untitled) |-> untitled[i].ind_var_name])
        group(name) == SelectSeq(untitled, LAMBDA tr : tr.ind_var_name = name)
        groups == [g \in 1..Len(names) |->
                      [trackers |-> [i \in 1..Len(group(names[g])) |->
                                        group(names[g])[i]._id]]]
    IN  [i \in 1..Len(titles) |-> [title |-> titles[i]]]
        \o (IF \E i \in 1..Len(titled_keys(trs)) : titled_keys(trs)[i] = "no_title"
            THEN groups
            ELSE <<>>)

\* Monitor.plot, line 140: the most plots of one figure
FigurePlots == 9

\* _monitor_plot, lines 807 to 857: no argument makes no figure; else one
\* figure with one subplot per argument: a title plots the Trackers under
\* it with the title above, a list of Trackers plots them with no title.
_monitor_plot(trs, args) ==
    IF args = <<>> THEN <<>>
    ELSE <<[i \in 1..Len(args) |->
               IF "title" \in DOMAIN args[i]
               THEN [title |-> args[i].title,
                     trackers |-> titled_trackers(trs, args[i].title)]
               ELSE [title |-> "", trackers |-> args[i].trackers]]>>

\* Monitor.plot, lines 140 to 144: more than nine plots are divided into
\* figures of nine; the value is the figures made, in order.
RECURSIVE plot(_, _)
plot(trs, args) ==
    IF Len(args) > FigurePlots
    THEN _monitor_plot(trs, SubSeq(args, 1, FigurePlots))
         \o plot(trs, SubSeq(args, FigurePlots + 1, Len(args)))
    ELSE _monitor_plot(trs, args)

\* _refresh_monitor_toggles, lines 775 to 787: one Monitor.plot call; plots
\* records the figures every call made.
PlotAct ==
    /\ pc = "plot_act"
    /\ plots' = Append(plots, plot(trackers, plot_titles(trackers)))
    /\ pc' = "idle"
    /\ UNCHANGED <<toggleVars, winVars, tgObj, tgRead, tgCaller, ret, histVars,
                   ids, trackers, live_view_queue, live_view_process, sessions, joinRet,
                   storeVars, cfgVars>>

\* ------------------------------------------------- live-view process
\* _live_view_process, line 637: the tracker is not yet in the chart
is_new_tracker_mut(id, trs) == TRUE

is_new_tracker(id, trs) == \A i \in 1..Len(trs) : trs[i] # id

\* the least and the greatest number of a non-empty set
MinOf(S) == CHOOSE a \in S : \A b \in S : a <= b

MaxOf(S) == CHOOSE a \in S : \A b \in S : a >= b

\* The limits matplotlib gives a new subplot (axes.plot, line 890): the range
\* of the plotted data widened by a margin on both sides.
Margin == 1

autoscale(data) ==
    LET xs == {data[k][1] : k \in 1..Len(data)}
        ys == UNION {{data[k][i] : i \in 2..Len(data[k])} : k \in 1..Len(data)}
    IN  [x |-> <<MinOf(xs) - Margin, MaxOf(xs) + Margin>>,
         y |-> <<MinOf(ys) - Margin, MaxOf(ys) + Margin>>]

\* line 639: trackers.append, the list of the trackers plotted in the figure
chart_add_mut(trs, id) == <<id>>

chart_add(trs, id) == Append(trs, id)

\* _redraw_live_view and lines 639 to 646: the tracker joins the chart, a new
\* figure replaces the old one and every tracker of the chart gets the
\* subplot that plots its data.
rebuild(s, id) ==
    LET trs == chart_add(s.trackers, id)
    IN  [s EXCEPT !.trackers = trs,
                  !.figure = @ + 1,
                  !.id_to_axes = [i \in DOMAIN @ \cup {trs[k] : k \in 1..Len(trs)} |->
                                     s.id_to_tracker[i]],
                  !.limits = [i \in DOMAIN @ \cup {trs[k] : k \in 1..Len(trs)} |->
                                 autoscale(s.id_to_tracker[i])],
                  !.stale = TRUE]

\* _update_live_view_axes, lines 736 to 739 and 742 to 745: one value against
\* the limits <<lower, upper>> of its axis
extend_mut(lim, v) == IF v < lim[1] THEN <<v, lim[2]>> ELSE <<lim[1], v>>

extend(lim, v) ==
    IF v < lim[1] THEN <<v, lim[2]>>
    ELSE IF v > lim[2] THEN <<lim[1], v>>
    ELSE lim

\* lines 741 to 745: the loop over the dependent values
RECURSIVE extend_all(_, _)
extend_all(lim, vs) ==
    IF vs = <<>> THEN lim ELSE extend_all(extend(lim, Head(vs)), Tail(vs))

\* _update_live_view_axes: the lines of the tracker's subplot get its data
\* and the limits are set from the old limits and the new values.
update_axes(s, id, new_data) ==
    [s EXCEPT !.id_to_axes[id] = s.id_to_tracker[id],
              !.limits[id] = [x |-> extend(@.x, new_data[1]),
                              y |-> extend_all(@.y, Tail(new_data))],
              !.stale = TRUE]

\* line 634: id_to_tracker[_id].data.append(data)
data_append_mut(local, data) == <<data>> \o local

data_append(local, data) == Append(local, data)

\* line 631: the test fails for an id the process does not know, and the
\* loop goes to the next message
ignore_mut(s) == [s EXCEPT !.figure = @ + 1, !.stale = TRUE]

ignore(s) == s

\* lines 628 to 651: one sample taken from the queue
apply_sample(s, info) ==
    LET _id == info[1]
        data == info[2]
    IN  IF _id \in DOMAIN s.id_to_tracker
        THEN LET s1 == [s EXCEPT !.id_to_tracker[_id] = data_append(@, data)]
             IN  IF is_new_tracker(_id, s1.trackers)
                 THEN rebuild(s1, _id)
                 ELSE update_axes(s1, _id, data)
        ELSE ignore(s)

\* The process has exited: nothing of its state is left but its queue, which
\* the main process still holds.
exited_mut(s) == s

exited(s) ==
    [queue |-> s.queue, state |-> "done", id_to_tracker |-> <<>>, trackers |-> <<>>,
     id_to_axes |-> <<>>, limits |-> <<>>, figure |-> None, stale |-> FALSE,
     copy |-> [s.copy EXCEPT !.tracker_monitors = <<>>],
     stop_sent |-> s.stop_sent,
     received |-> <<>>, snapshot |-> <<>>, enq |-> <<>>]

\* lines 622 to 651: the process takes one message from its queue.  The stop
\* signal ends both loops: the figure is drawn a last time and the process exits.
LvGet(n) ==
    /\ sessions[n].state = "running"
    /\ sessions[n].queue # <<>>
    /\ LET info == Head(sessions[n].queue)
           s == [sessions[n] EXCEPT !.queue = Tail(@)]
       IN  sessions' = [sessions EXCEPT ![n] =
               IF ~truthy(info)
               THEN exited(s)
               ELSE [apply_sample(s, info) EXCEPT !.received = Append(@, info[1])]]
    /\ UNCHANGED <<toggleVars, winVars, mainVars, histVars,
                   ids, trackers, live_view_queue, live_view_process, joinRet, plots,
                   storeVars, cfgVars>>

\* lines 653 to 659: the queue is empty, the figure (if any) is drawn and the
\* process sleeps until the next round.
LvDraw(n) ==
    /\ sessions[n].state = "running"
    /\ sessions[n].queue = <<>>
    /\ sessions[n].figure # None
    /\ sessions' = [sessions EXCEPT ![n].stale = FALSE]
    /\ UNCHANGED <<toggleVars, winVars, mainVars, histVars,
                   ids, trackers, live_view_queue, live_view_process, joinRet, plots,
                   storeVars, cfgVars>>

\* After Monitor() with toggles enabled: two Toggles, the ADD of the second
\* is on its way to the window process.
Init ==
    /\ counts = <<0, 0>>
    /\ toggles = <<NewToggleObject(0, TRUE), NewToggleObject(1, FALSE)>>
    /\ in_q = <<<<ADD>>>>
    /\ columns = 1
    /\ buttons = <<0>>
    /\ closed = <<FALSE>>
    /\ disabled = {}
    /\ window = "open"
    /\ wpc = "idle"
    /\ wBtn = None
    /\ wRead = 0
    /\ pc = "idle"
    /\ tgObj = None
    /\ tgRead = 0
    /\ tgCaller = "user"
    /\ ret = "none"
    /\ presses = <<0, 0>>
    /\ polls = <<0, 0>>
    /\ late = <<FALSE, FALSE>>
    /\ sent = <<<<ADD>>>>
    /\ applied = <<>>
    /\ seen = 0
    /\ NoMonitor
    /\ enable_toggles = TRUE
    /\ monitor_toggles = <<LvToggle, PlotToggle>>

Next ==
    \/ \E ndep \in NextDepCounts(OneDepCount) \ {0} : NewTracker(ndep)
    \/ \E t \in 1..Len(trackers), n \in OneArgCounts : Update(t, DataCount(trackers), n)
    \/ RefreshLv
    \/ RefreshPlot
    \/ ToggledRead
    \/ ToggledWriteRefresh
    \/ LvAct
    \/ PlotAct
    \/ OpenLiveView
    \/ CloseLiveView
    \/ Join
    \/ \E n \in 1..Len(sessions) : LvGet(n)
    \/ \E n \in 1..Len(sessions) : LvDraw(n)
    \/ \E b \in 1..Len(buttons) : Press(b)
    \/ PressWrite
    \/ Refresh

Spec == Init /\ [][Next]_vars

\* The Monitor while no button is pressed: every toggle check finds nothing.
NextLive ==
    \/ \E ndep \in NextDepCounts(DepCounts) : NewTracker(ndep)
    \/ \E t \in 1..Len(trackers), n \in ArgCounts : Update(t, DataCount(trackers), n)
    \/ RefreshLv
    \/ RefreshPlot
    \/ OpenLiveView
    \/ CloseLiveView
    \/ Join
    \/ \E n \in 1..Len(sessions) : LvGet(n)
    \/ \E n \in 1..Len(sessions) : LvDraw(n)

SpecLive == Init /\ [][NextLive]_vars

\* The live-view toggle of a Monitor with one Tracker: presses of its button,
\* updates with the right number of values and direct calls of
\* open_live_view and close_live_view.
NextCheck ==
    \/ \E ndep \in NextDepCounts(OneDepCount) \ {0} : NewTracker(ndep)
    \/ \E t \in 1..Len(trackers) : Update(t, DataCount(trackers), trackers[t].ndep)
    \/ RefreshLv
    \/ RefreshPlot
    \/ ToggledRead
    \/ ToggledWriteRefresh
    \/ LvAct
    \/ OpenLiveView
    \/ CloseLiveView
    \/ Join
    \/ \E n \in 1..Len(sessions) : LvGet(n)
    \/ Press(LvToggle)
    \/ PressWrite

SpecCheck == Init /\ [][NextCheck]_vars

\* The Trackers of a program that saves its data: the first untitled and
\* with autosave, the second under a title.
StoreRoster ==
    <<[title |-> "no_title", autosave |-> TRUE, ndep |-> 1],
      [title |-> "T", autosave |-> FALSE, ndep |-> 2]>>

\* the values its updates pass: a negative one and one of two digits
StoreVals == {-1, 12}

\* Trackers made (and a tracker() call with no dependent name), updated with
\* the right number of values, autosaved while another program opens and
\* closes the file, saved, and loaded into a second Monitor.
NextStore ==
    \/ \E k \in {Len(trackers) + 1} \cap DOMAIN StoreRoster :
           tracker(<<"x">>, SubSeq(DepNames, 1, StoreRoster[k].ndep),
                   StoreRoster[k].title, StoreRoster[k].autosave)
    \/ tracker(<<"x">>, <<>>, "no_title", FALSE)
    \/ \E t \in 1..Len(trackers), v \in StoreVals :
           update(t, v, [i \in 1..trackers[t].ndep |-> v])
    \/ AppendToOutFile
    \/ Lock
    \/ Unlock
    \/ RefreshLv
    \/ RefreshPlot
    \/ \E t \in 1..Len(trackers) : Save(t)
    \/ Load

SpecStore == Init /\ [][NextStore]_vars

\* The pairs (independent value, dependent value) a program passes to
\* Tracker.update when the chart's limits are studied: the values differ by
\* more than the margin; a pair moves both axes, one of them, or none.
Samples == {<<0, 0>>, <<2, -2>>, <<-2, 2>>, <<2, 0>>}

\* One live view of a program whose updates pass a pair of Samples, the
\* dependent value once for every name of the tracker.
NextAxes ==
    \/ \E ndep \in NextDepCounts(DepCounts) \ {0} : NewTracker(ndep)
    \/ \E t \in 1..Len(trackers), xy \in Samples :
           update(t, xy[1], [i \in 1..trackers[t].ndep |-> xy[2]])
    \/ RefreshLv
    \/ RefreshPlot
    \/ sessions = <<>> /\ OpenLiveView
    \/ \E n \in 1..Len(sessions) : LvGet(n)
    \/ \E n \in 1..Len(sessions) : LvDraw(n)

SpecAxes == Init /\ [][NextAxes]_vars

\* After Monitor(enable_toggles=False): no Toggle is made, so there is no
\* counter table, no instruction queue and no window process, and the
\* Monitor has no attribute live_view_toggle or plot_toggle.
InitQuiet ==
    /\ counts = <<>>
    /\ toggles = <<>>
    /\ in_q = <<>>
    /\ columns = 0
    /\ buttons = <<>>
    /\ closed = <<>>
    /\ disabled = {}
    /\ window = "none"
    /\ wpc = "idle"
    /\ wBtn = None
    /\ wRead = 0
    /\ pc = "idle"
    /\ tgObj = None
    /\ tgRead = 0
    /\ tgCaller = "user"
    /\ ret = "none"
    /\ presses = <<>>
    /\ polls = <<>>
    /\ late = <<>>
    /\ sent = <<>>
    /\ applied = <<>>
    /\ seen = 0
    /\ NoMonitor
    /\ enable_toggles = FALSE
    /\ monitor_toggles = <<>>

\* A Monitor without toggles: Trackers made and updated, and the calls of
\* add_toggle, open_live_view, close_live_view and finalize.
NextQuiet ==
    \/ \E ndep \in NextDepCounts(DepCounts) : NewTracker(ndep)
    \/ \E t \in 1..Len(trackers), n \in ArgCounts : Update(t, DataCount(trackers), n)
    \/ RefreshLv
    \/ RefreshPlot
    \/ AddToggle
    \/ OpenLiveView
    \/ CloseLiveView
    \/ Finalize
    \/ CloseToggles

SpecQuiet == InitQuiet /\ [][NextQuiet]_vars

\* A Monitor that is finalized: its Toggles are made through add_toggle, its
\* one Tracker is updated, its live view is opened and closed by calls.  No
\* button is pressed.  The window process keeps refreshing, a rendering
\* process keeps polling its queue, and the main process goes on inside
\* finalize (the join returns once the process has exited).
NextFinal ==
    \/ AddToggle
    \/ \E ndep \in NextDepCounts(OneDepCount) \ {0} : NewTracker(ndep)
    \/ \E t \in 1..Len(trackers) : Update(t, DataCount(trackers), trackers[t].ndep)
    \/ RefreshLv
    \/ RefreshPlot
    \/ OpenLiveView
    \/ CloseLiveView
    \/ Finalize
    \/ Join
    \/ CloseToggles
    \/ \E n \in 1..Len(sessions) : LvGet(n)
    \/ Refresh

SpecFinal ==
    /\ Init
    /\ [][NextFinal]_vars
    /\ WF_vars(Refresh)
    /\ WF_vars(Join)
    /\ WF_vars(CloseToggles)
    /\ \A n \in 1..MaxSessions : WF_vars(n <= Len(sessions) /\ LvGet(n))

\* The live view of a Monitor with one Tracker, opened and closed by calls,
\* while no button is pressed.  A rendering process keeps taking what is on
\* its queue (its loop sleeps and polls again, lines 621 to 659), and the
\* main process goes on when the join returns.
NextStop ==
    \/ \E ndep \in NextDepCounts(OneDepCount) \ {0} : NewTracker(ndep)
    \/ \E t \in 1..Len(trackers) : Update(t, DataCount(trackers), trackers[t].ndep)
    \/ RefreshLv
    \/ RefreshPlot
    \/ OpenLiveView
    \/ CloseLiveView
    \/ Join
    \/ \E n \in 1..Len(sessions) : LvGet(n)
    \/ \E n \in 1..Len(sessions) : LvDraw(n)

SpecStop ==
    /\ Init
    /\ [][NextStop]_vars
    /\ WF_vars(Join)
    /\ \A n \in 1..MaxSessions : WF_vars(n <= Len(sessions) /\ LvGet(n))

\* A Monitor whose one Tracker autosaves: updates with the right and with a
\* wrong number of values, presses of the buttons, and the live view the
\* toggle check opens and closes.
NextArity ==
    \/ Len(trackers) = 0 /\ tracker(<<"x">>, <<"y">>, "no_title", TRUE)
    \/ \E t \in 1..Len(trackers), n \in OneArgCounts : Update(t, DataCount(trackers), n)
    \/ AppendToOutFile
    \/ RefreshLv
    \/ RefreshPlot
    \/ ToggledRead
    \/ ToggledWriteRefresh
    \/ LvAct
    \/ PlotAct
    \/ Join
    \/ \E n \in 1..Len(sessions) : LvGet(n)
    \/ \E b \in 1..Len(buttons) : Press(b)
    \/ PressWrite
    \/ Refresh

SpecArity == Init /\ [][NextArity]_vars

\* The Trackers a program makes when the on-demand plot is studied: two
\* under the title T, the others untitled, two of them with the independent
\* variable x; with the last one the plot has ten plots, one more than a
\* figure takes.
PlotRoster ==
    <<[title |-> "T", ind_var_name |-> <<"x">>],
      [title |-> "no_title", ind_var_name |-> <<"x">>],
      [title |-> "no_title", ind_var_name |-> <<"t">>],
      [title |-> "no_title", ind_var_name |-> <<"x">>],
      [title |-> "T", ind_var_name |-> <<"t">>],
      [title |-> "no_title", ind_var_name |-> <<"a">>],
      [title |-> "no_title", ind_var_name |-> <<"b">>],
      [title |-> "no_title", ind_var_name |-> <<"c">>],
      [title |-> "no_title", ind_var_name |-> <<"d">>],
      [title |-> "no_title", ind_var_name |-> <<"e">>],
      [title |-> "no_title", ind_var_name |-> <<"f">>],
      [title |-> "no_title", ind_var_name |-> <<"g">>]>>

\* the numbers of Trackers with which the program updates: the titled one
\* alone, a titled group with two groups of untitled ones, and all
PlotPoints == {1, 4, Len(PlotRoster)}

\* The plot button is pressed while the program makes the Trackers of
\* PlotRoster and updates the newest one; the checks of the updates plot.
NextPlot ==
    \/ \E k \in {Len(trackers) + 1} \cap DOMAIN PlotRoster :
           tracker(PlotRoster[k].ind_var_name, <<"y">>, PlotRoster[k].title, FALSE)
    \/ Len(trackers) \in PlotPoints /\ Update(Len(trackers), DataCount(trackers), 1)
    \/ RefreshLv
    \/ RefreshPlot
    \/ ToggledRead
    \/ ToggledWriteRefresh
    \/ PlotAct
    \/ Press(PlotToggle)
    \/ PressWrite
    \/ Refresh

SpecPlot == Init /\ [][NextPlot]_vars

\* The toggle checks of a Monitor with one Tracker and a Toggle the program
\* adds: the buttons are pressed while updates with the right number of
\* values run their checks, which open and close the live view and plot.
NextObserve ==
    \/ AddToggle
    \/ \E ndep \in NextDepCounts(OneDepCount) \ {0} : NewTracker(ndep)
    \/ \E t \in 1..Len(trackers) : Update(t, DataCount(trackers), trackers[t].ndep)
    \/ RefreshLv
    \/ RefreshPlot
    \/ ToggledRead
    \/ ToggledWriteRefresh
    \/ LvAct
    \/ PlotAct
    \/ Join
    \/ \E n \in 1..Len(sessions) : LvGet(n)
    \/ \E b \in 1..Len(buttons) : Press(b)
    \/ PressWrite
    \/ Refresh

SpecObserve == Init /\ [][NextObserve]_vars

\* The program's next Tracker.update call, with the right number of values.
KeepUpdating ==
    \E t \in 1..Len(trackers) : Update(t, DataCount(trackers), trackers[t].ndep)

\* A program that keeps updating its one Tracker while the live-view button
\* is pressed; it may call close_live_view itself.  The main process runs
\* on from step to step (it waits in join only), a rendering process keeps
\* polling its queue, and a press handler that has started finishes.
NextPressed ==
    \/ \E ndep \in NextDepCounts(OneDepCount) \ {0} : NewTracker(ndep)
    \/ KeepUpdating
    \/ RefreshLv
    \/ RefreshPlot
    \/ ToggledRead
    \/ ToggledWriteRefresh
    \/ LvAct
    \/ CloseLiveView
    \/ Join
    \/ \E n \in 1..Len(sessions) : LvGet(n)
    \/ Press(LvToggle)
    \/ PressWrite

SpecPressed ==
    /\ Init
    /\ [][NextPressed]_vars
    /\ WF_vars(KeepUpdating)
    /\ WF_vars(RefreshLv)
    /\ WF_vars(RefreshPlot)
    /\ WF_vars(ToggledRead)
    /\ WF_vars(ToggledWriteRefresh)
    /\ WF_vars(LvAct)
    /\ WF_vars(Join)
    /\ WF_vars(PressWrite)
    /\ \A n \in 1..MaxSessions : WF_vars(n <= Len(sessions) /\ LvGet(n))

\* ------------------------------------------------------------- claims
Min(a, b) == IF a < b THEN a ELSE b

\* C1: the shared counter of every toggle id is never negative, whatever
\* the interleaving of the handler's read and write with toggled()'s test,
\* read and write.
C1_CounterNonNegative ==
    \A i \in 1..Len(counts) : counts[i] >= 0

\* C1 witness: a press of a button and toggled() on its Toggle are both
\* between their read and their write.
C1_Witness ==
    /\ pc = "tg_write"
    /\ wpc = "pressing"
    /\ wBtn = tgObj

\* C2: whenever no press and no toggled() is in progress, the presses made on
\* a toggle are the toggled() calls that returned true plus its counter.
C2_NoPressLostOrDuplicated ==
    (pc = "idle" /\ wpc = "idle") =>
        \A k \in 1..Len(toggles) :
            presses[k] = toggles[k].toggle_count + CounterOf(k)

\* C3: when all N presses of a toggle were finished before its first
\* toggled() call, then after any number p of calls exactly Min(p, N) of them
\* have returned true (the first N do, the next do not), and the counter
\* holds the N - Min(p, N) presses left: 0 from the N-th call on.
C3_DrainsOneAtATime ==
    \A k \in 1..Len(toggles) :
        (pc = "idle" /\ ~late[k]) =>
            /\ toggles[k].toggle_count = Min(polls[k], presses[k])
            /\ CounterOf(k) = presses[k] - toggles[k].toggle_count
            /\ (polls[k] > presses[k] /\ ret \in {"True", "False"} => CounterOf(k) = 0)

\* C3 witness: N >= 2 early presses and N + 1 calls, the last returning false.
C3_Witness ==
    \E k \in 1..Len(toggles) :
        /\ pc = "idle"
        /\ ~late[k]
        /\ presses[k] >= 2
        /\ polls[k] = presses[k] + 1
        /\ toggles[k].toggle_count = presses[k]
        /\ ret = "False"

\* C4: a step changes the counter entry of an id only when it is the write of
\* a press of that id's button or the write of toggled() on that id's Toggle,
\* and changes the tally of a Toggle only when toggled() on that Toggle sees
\* a positive counter.
C4_TogglesIndependent ==
    [][ /\ \A k \in 1..Len(toggles) :
             CounterOf(k)' # CounterOf(k) =>
                 \/ wpc = "pressing" /\ wpc' = "idle" /\ wBtn = k
                 \/ pc = "tg_write" /\ pc' # "tg_write" /\ tgObj = k
        /\ \A k \in 1..Len(toggles) :
             toggles'[k].toggle_count # toggles[k].toggle_count =>
                 pc # "tg_read" /\ pc' = "tg_read" /\ tgObj' = k
      ]_vars

\* C4 witness: 1 press on id 0 and 1 press on id 1 were drained by 2 calls
\* on id 0 (true, false) and 1 call on id 1 (true).
C4_Witness ==
    /\ Len(toggles) = 2
    /\ presses = <<1, 1>>
    /\ polls = <<2, 1>>
    /\ toggles[1].toggle_count = 1
    /\ toggles[2].toggle_count = 1
    /\ counts = <<0, 0>>
    /\ pc = "idle"

\* C9 as claimed: the window process has terminated only if close() was called
\* on every Toggle of the group, and it has terminated once the CLOSE of every
\* allocated id is applied.
C9_TerminatesIffAllCreatedClosed ==
    /\ window = "destroyed" => \A k \in 1..Len(toggles) : toggles[k].close_sent > 0
    /\ (\A i \in 1..Len(counts) : i <= Len(closed) /\ closed[i]) => window = "destroyed"

\* C9 amended: the window process has terminated exactly when every button it
\* has made (the first and one per ADD applied) has had its CLOSE applied;
\* close() was then called on each of these Toggles.  A Toggle whose ADD is
\* still queued, or is sent later, does not count.
C9_TerminatesIffAllButtonsClosed ==
    /\ window # "error"
    /\ Len(closed) = Len(buttons) /\ Len(buttons) = columns /\ columns >= 1
    /\ window = "destroyed" <=> \A b \in 1..Len(closed) : closed[b]
    /\ \A b \in 1..Len(closed) : closed[b] => toggles[b].close_sent > 0

\* C9 witness: the window has terminated after making two buttons and
\* applying the CLOSE of both.
C9_Witness ==
    /\ window = "destroyed"
    /\ Len(closed) = 2
    /\ Len(toggles) = 2

\* C5: a Tracker.update call with a number of dependent values other than the
\* tracker's number of names raises, and leaves the data of every tracker
\* (and everything but the call's result) as it was.
\* (Stated as: the step raises and changes nothing, or it is no such call;
\* an update can only be called when pc = "idle".)
C5_ArityErrorLeavesData ==
    [][ \/ pc # "idle"
        \/ /\ ret' = "Exception"
           /\ trackers' = trackers
           /\ sessions' = sessions
           /\ pc' = "idle"
        \/ \A t \in 1..Len(trackers), n \in ArgCounts :
               ~(n # trackers[t].ndep /\ Update(t, DataCount(trackers), n))
      ]_vars

\* C5 witness: a call with a wrong count has raised on a tracker with no data
\* (update(1, 2, 3) on a tracker with one dependent name), after another
\* tracker was updated.
C5_Witness ==
    /\ ret = "Exception"
    /\ Len(trackers) = 2
    /\ trackers[1].data = <<>>
    /\ Len(trackers[2].data) = 1

\* the sessions whose process was started and has not been sent the stop signal
Unstopped == {n \in 1..Len(sessions) : sessions[n].state = "running" /\ ~sessions[n].stop_sent}

\* C6: at most one rendering process that has not been sent the stop signal
\* exists, and it is the one the Monitor's handles name.
C6_AtMostOneLiveView ==
    /\ Cardinality(Unstopped) <= 1
    /\ \A n \in Unstopped : live_view_queue = n /\ live_view_process = n

\* C7: close_live_view returns from its join only when the process of the
\* session has exited, and it then clears both handles; an update made while
\* the queue handle is None puts nothing on any queue.
C7_CloseWaitsAndReleases ==
    [][ /\ (pc = "join" /\ pc' # "join") =>
              /\ sessions[live_view_process].state = "done"
              /\ live_view_queue' = None
              /\ live_view_process' = None
        /\ (pc = "idle" /\ pc' = "rf_lv" /\ live_view_queue = None) =>
              sessions' = sessions
      ]_vars

\* C7 witness: an update is made after close_live_view returned from a
\* session that had been sent samples.
C7_Witness ==
    /\ pc = "rf_lv"
    /\ live_view_queue = None
    /\ live_view_process = None
    /\ \E n \in 1..Len(sessions) : sessions[n].state = "done" /\ sessions[n].stop_sent
    /\ DataCount(trackers) >= 2

\* C8: close_live_view called while the queue handle is None returns None and
\* changes nothing: no message is put, no process is waited for.
C8_CloseWhenClosedIsNoOp ==
    [][ (~is_set(live_view_queue) /\ CloseLiveView) =>
            /\ ret' = "none"
            /\ pc' = "idle"
            /\ UNCHANGED <<sessions, live_view_queue, live_view_process, trackers, ids,
                           joinRet, plots, toggleVars>>
      ]_vars

\* C8 witness: the handles are None after a session was closed (a second
\* close_live_view is then the call the claim is about).
C8_Witness ==
    /\ pc = "idle"
    /\ ret = "none"
    /\ live_view_queue = None
    /\ \E n \in 1..Len(sessions) : sessions[n].state = "done"

\* the known tracker ids from which a session has taken a sample
Sampled(s) == {s.received[i] : i \in 1..Len(s.received)} \cap DOMAIN s.id_to_tracker

\* C10: in a running session the figures built so far are as many as the
\* distinct known tracker ids a sample was taken from; the chart's trackers
\* are these ids, each once, and each has its subplot.
C10_OneRebuildPerTracker ==
    \A n \in 1..Len(sessions) :
        LET s == sessions[n]
        IN  s.state = "running" =>
                /\ s.figure = Cardinality(Sampled(s))
                /\ Len(s.trackers) = Cardinality(Sampled(s))
                /\ {s.trackers[i] : i \in 1..Len(s.trackers)} = Sampled(s)
                /\ DOMAIN s.id_to_axes = Sampled(s)

\* C10 witness: three samples of two trackers were taken, the last one of a
\* tracker already in the chart: two figures were built.
C10_Witness ==
    \E n \in 1..Len(sessions) :
        /\ sessions[n].state = "running"
        /\ Len(sessions[n].received) = 3
        /\ sessions[n].received[3] = sessions[n].received[1]
        /\ sessions[n].figure = 2

\* the trackers plotted in the figure of a session (those given to
\* _monitor_plot when the figure was last built)
Drawn(s) == IF s.figure = None THEN {} ELSE {s.trackers[i] : i \in 1..Len(s.trackers)}

\* C11: in a running session the trackers drawn are exactly the trackers of
\* the snapshot from which the session has taken a sample; a tracker the
\* Monitor has registered and the session took no sample of is not drawn;
\* and a step of a running session never removes a tracker from the chart.
C11_DrawnAreTheSampled ==
    /\ [](\A n \in 1..Len(sessions) :
            LET s == sessions[n]
            IN  s.state = "running" =>
                    /\ Drawn(s) = Sampled(s)
                    /\ \A t \in 1..Len(trackers) :
                           (\A i \in 1..Len(s.received) : s.received[i] # trackers[t]._id)
                               => trackers[t]._id \notin Drawn(s))
    /\ [][ \A n \in 1..Len(sessions) :
              (sessions[n].state = "running" /\ sessions'[n].state = "running")
                  => Drawn(sessions[n]) \subseteq Drawn(sessions'[n])
         ]_vars

\* C11 witness: a session knows two trackers, has drawn the second after two
\* samples of it and has not drawn the first, which was never updated.
C11_Witness ==
    \E n \in 1..Len(sessions) :
        /\ sessions[n].state = "running"
        /\ DOMAIN sessions[n].id_to_tracker = {0, 1}
        /\ sessions[n].received = <<1, 1>>
        /\ Drawn(sessions[n]) = {1}
        /\ trackers[1].data = <<>>

\* the values of the tuples of a tracker's data: the independent ones and
\* the dependent ones
XsOf(data) == {data[k][1] : k \in 1..Len(data)}

YsOf(data) == UNION {{data[k][i] : i \in 2..Len(data[k])} : k \in 1..Len(data)}

Covers(lim, S) == \A v \in S : lim[1] <= v /\ v <= lim[2]

\* C12: in a running session the x limits of every drawn tracker's subplot
\* contain the independent values and its y limits the dependent values of
\* all the tuples the session holds for it; and a step that keeps the figure
\* (an incremental update) raises no lower limit and lowers no upper limit.
C12_LimitsCoverAndOnlyGrow ==
    /\ [](\A n \in 1..Len(sessions) :
            LET s == sessions[n]
            IN  s.state = "running" =>
                    \A id \in Drawn(s) :
                        /\ Covers(s.limits[id].x, XsOf(s.id_to_tracker[id]))
                        /\ Covers(s.limits[id].y, YsOf(s.id_to_tracker[id])))
    /\ [][ \A n \in 1..Len(sessions) :
              LET s == sessions[n]
                  s1 == sessions'[n]
              IN  (s.state = "running" /\ s1.state = "running" /\ s1.figure = s.figure)
                      => \A id \in Drawn(s) :
                             /\ s1.limits[id].x[1] <= s.limits[id].x[1]
                             /\ s1.limits[id].x[2] >= s.limits[id].x[2]
                             /\ s1.limits[id].y[1] <= s.limits[id].y[1]
                             /\ s1.limits[id].y[2] >= s.limits[id].y[2]
         ]_vars

\* C12 witness: after (0, 0) two incremental updates of a drawn tracker,
\* (2, -2) and (-2, 2), have moved each of its four limits to the new value.
C12_Witness ==
    \E n \in 1..Len(sessions) :
        /\ sessions[n].state = "running"
        /\ sessions[n].figure = 1
        /\ \E id \in Drawn(sessions[n]) :
               /\ sessions[n].id_to_tracker[id] = <<<<0, 0>>, <<2, -2>>, <<-2, 2>>>>
               /\ sessions[n].limits[id] = [x |-> <<-2, 2>>, y |-> <<-2, 2>>]

\* an odd number
Odd(n) == n % 2 = 1

\* a step that ends the live-view part of a toggle check in which toggled()
\* returned True: open_live_view or close_live_view has returned
LvCheckActed == pc \in {"lv_act", "join"} /\ pc' = "rf_plot"

C14_TwoPressesCancel ==
    [][ (LvCheckActed /\ seen >= 2) =>
            (is_set(live_view_queue') <=> is_set(live_view_queue))
      ]_vars

\* C14 amended: a toggle check that finds two presses pending consumes one of
\* them: toggle_count grows by one in the check, the live view is opened or
\* closed by the new parity, and a press is still pending for the next check.
C14_OnePressPerCheck ==
    [][ /\ (pc = "rf_lv" /\ seen' >= 2) =>
              toggles'[LvToggle].toggle_count = toggles[LvToggle].toggle_count + 1
        /\ (pc # "rf_lv" /\ seen >= 2) =>
              toggles'[LvToggle].toggle_count = toggles[LvToggle].toggle_count
        /\ (LvCheckActed /\ seen >= 2) =>
              /\ is_set(live_view_queue') <=> Odd(toggles[LvToggle].toggle_count)
              /\ CounterOf(LvToggle)' >= 1
      ]_vars

\* C14 witness: a check that found two presses has opened the first session,
\* and one press is left.
C14_Witness ==
    /\ pc = "rf_plot"
    /\ presses[LvToggle] = 2
    /\ toggles[LvToggle].toggle_count = 1
    /\ CounterOf(LvToggle) = 1
    /\ is_set(live_view_queue)
    /\ Len(sessions) = 1

\* C15: the instructions the window process has applied are, in order, the
\* first of the instructions the main process has sent (a prefix), and the
\* instructions still in the queue are the rest, in order.
C15_AppliedInSendOrder ==
    /\ Len(applied) <= Len(sent)
    /\ applied = SubSeq(sent, 1, Len(applied))
    /\ in_q = SubSeq(sent, Len(applied) + 1, Len(sent))

\* C15 witness: ADD, CLOSE of id 1 and CLOSE of id 0 were applied in this
\* order, and a fourth instruction was sent that is never applied.
C15_Witness ==
    /\ applied = <<<<ADD>>, <<CLOSE, 1>>, <<CLOSE, 0>>>>
    /\ Len(sent) = 4
    /\ window = "destroyed"

\* C16: the Toggles of a group have the ids 0, 1, ..., n - 1 in creation
\* order, the counter table has n entries, the button made for the Toggle
\* with id k has captured the index k, and a finished press of that button
\* has added one to entry k and left every other entry.
C16_IdsAreTableIndexes ==
    /\ [](/\ Len(counts) = Len(toggles)
          /\ \A k \in 1..Len(toggles) : toggles[k].id = k - 1
          /\ Len(buttons) <= Len(toggles)
          /\ \A b \in 1..Len(buttons) : buttons[b] = toggles[b].id)
    /\ [][ (wpc = "pressing" /\ wpc' = "idle") =>
              counts' = [counts EXCEPT ![toggles[wBtn].id + 1] = @ + 1]
         ]_vars

\* C16 witness: the button of the second Toggle (id 1) was pressed once.
C16_Witness ==
    /\ Len(toggles) = 2
    /\ Len(buttons) = 2
    /\ presses = <<0, 1>>
    /\ counts = <<0, 1>>

\* C17: the window process never fails on a CLOSE, and a refresh that applies
\* only CLOSE instructions of buttons closed before leaves the closed flags,
\* the disabled buttons and the window as they were; close() returns None.
C17_SecondCloseChangesNothing ==
    /\ [](window # "error")
    /\ [][ (/\ window = "open"
            /\ Len(applied') > Len(applied)
            /\ \A i \in 1..Len(in_q) :
                   /\ in_q[i][1] = CLOSE
                   /\ in_q[i][2] < Len(closed)
                   /\ closed[in_q[i][2] + 1])
              => UNCHANGED <<closed, disabled, window, buttons, columns>>
         ]_vars
    /\ [][ Len(sent') > Len(sent) => ret' = "none" ]_vars

\* C17 witness: close() was called twice on the first of two Toggles and
\* both CLOSE instructions were applied; the window is open.
C17_Witness ==
    /\ applied = <<<<ADD>>, <<CLOSE, 0>>, <<CLOSE, 0>>>>
    /\ toggles[1].close_sent = 2
    /\ window = "open"
    /\ disabled = {1}
    /\ in_q = <<>>

\* C18: the ids of a Monitor's Trackers are not negative and grow strictly
\* in creation order (so no two are equal), and the Monitor's next id is
\* above them all; the same for the Trackers load_from_dir made.
C18_TrackerIdsIncrease ==
    /\ \A i \in 1..Len(trackers) :
           /\ trackers[i]._id >= 0
           /\ trackers[i]._id < ids
           /\ \A j \in 1..Len(trackers) : i < j => trackers[i]._id < trackers[j]._id
    /\ \A i \in 1..Len(fresh.trackers) :
           /\ fresh.trackers[i]._id >= 0
           /\ fresh.trackers[i]._id < fresh.ids
           /\ \A j \in 1..Len(fresh.trackers) :
                  i < j => fresh.trackers[i]._id < fresh.trackers[j]._id

\* C18 witness: a tracker() call has failed after two Trackers were made,
\* and load_from_dir has made two Trackers in the second Monitor.
C18_Witness ==
    /\ Len(trackers) >= 2
    /\ Len(fresh.trackers) = 2
    /\ ret = "ValueError"

\* a loaded Tracker has the names and the data of a Tracker
SameTracker(tr, ld) ==
    /\ ld.ind_var_name = tr.ind_var_name
    /\ ld.dep_var_names = tr.dep_var_names
    /\ ld.data = tr.data

\* C19: when the directory is loaded into the second Monitor, the call
\* raises nothing, and for every Tracker saved after its last update (under
\* a title or not) the second Monitor then has a Tracker with the same names
\* and the same tuples in the same order.
C19_SaveLoadRoundTrip ==
    [][ (~fresh.loaded /\ fresh'.loaded) =>
            /\ fresh'.ret = "none"
            /\ \A t \in 1..Len(trackers) :
                   trackers[t].saved =>
                       \E l \in 1..Len(fresh'.trackers) :
                           SameTracker(trackers[t], fresh'.trackers[l])
      ]_vars

\* C20: the autosave append never makes Tracker.update raise, however often
\* open() was denied: an update either is still in _append_to_out_file or
\* has written its line.
C20_RetriesWhileLocked ==
    ret # "RecursionError"

\* C21: add_toggle on a Monitor made with toggles disabled raises
\* ReferenceError and changes nothing: Monitor.toggles, the Toggle objects,
\* the counter table, the instruction queue and what was sent on it, the
\* window process and the live-view sessions and process are as before.
C21_AddToggleDisabledFails ==
    [][ (~enable_toggles /\ AddToggle) =>
            /\ ret' = "ReferenceError"
            /\ UNCHANGED <<monitor_toggles, toggles, counts, in_q, sent, window,
                           sessions, live_view_queue, live_view_process>>
      ]_vars

\* C21 witness: add_toggle has raised on a Monitor without toggles that has
\* a Tracker with data.
C21_Witness ==
    /\ ~enable_toggles
    /\ ret = "ReferenceError"
    /\ DataCount(trackers) > 0
    /\ monitor_toggles = <<>>
    /\ counts = <<>>

\* every Toggle of Monitor.toggles has been sent a CLOSE
AllCloseSent == \A i \in 1..Len(monitor_toggles) : toggles[monitor_toggles[i]].close_sent > 0

\* no rendering process the Monitor started is running
NoneRunning == \A n \in 1..Len(sessions) : sessions[n].state = "done"

\* C22: when finalize returns on a Monitor whose Toggles were all made
\* through add_toggle, no rendering process the Monitor started is running
\* and a CLOSE has been sent for every Toggle; and after that the window
\* process terminates.
C22_FinalizeStopsEverything ==
    /\ [][ (~finalized /\ finalized') => (NoneRunning' /\ AllCloseSent') ]_vars
    /\ (finalized ~> window = "destroyed")

\* the last element of a non-empty sequence
Last(q) == q[Len(q)]

\* the elements of a sequence
Range(q) == {q[i] : i \in 1..Len(q)}

\* C23: an update puts its tuple on the queue exactly when a session is open
\* at that moment, before the toggle check.  So the tuple of the update whose
\* toggle check opens a session is in the session's snapshot and is never
\* put on its queue, and the tuple of the update whose toggle check closes a
\* session was put on the queue before the stop signal.
C23_EnqueueBeforeToggleCheck ==
    /\ [](\A n \in 1..Len(sessions) : \A k \in 1..Len(sessions[n].enq) :
             LET e == sessions[n].enq[k]
             IN  e[1] \in DOMAIN sessions[n].snapshot =>
                     e[2] \notin Range(sessions[n].snapshot[e[1]]))
    /\ [][ /\ (pc = "idle" /\ pc' = "rf_lv") =>
                   IF live_view_queue # None
                   THEN /\ Len(sessions'[live_view_queue].queue) =
                               Len(sessions[live_view_queue].queue) + 1
                        /\ Last(sessions'[live_view_queue].queue) =
                               <<trackers'[1]._id, Last(trackers'[1].data)>>
                   ELSE sessions' = sessions
           /\ (pc = "lv_act" /\ Len(sessions') > Len(sessions)) =>
                   /\ Last(sessions').queue = <<>>
                   /\ Last(sessions').enq = <<>>
                   /\ Last(Last(sessions').snapshot[trackers[1]._id]) = Last(trackers[1].data)
           /\ (pc = "lv_act" /\ pc' = "join") =>
                   /\ sessions'[live_view_queue].queue =
                          Append(sessions[live_view_queue].queue, NoneMsg)
                   /\ Last(sessions[live_view_queue].enq) =
                          <<trackers[1]._id, Last(trackers[1].data)>>
         ]_vars

\* C23 witness: the first toggle check opened the one session, the second
\* has put the stop signal behind the tuple of its update, and the process
\* has not taken that tuple yet.
C23_Witness ==
    /\ pc = "join"
    /\ Len(sessions) = 1
    /\ toggles[LvToggle].toggle_count = 2
    /\ Len(sessions[1].queue) >= 2
    /\ Last(sessions[1].queue) = NoneMsg
    /\ sessions[1].queue[Len(sessions[1].queue) - 1] = Last(sessions[1].enq)

\* the tuples of the samples of a sequence that carry the id i, in order
RECURSIVE TuplesFor(_, _)
TuplesFor(samples, i) ==
    IF samples = <<>> THEN <<>>
    ELSE (IF Head(samples)[1] = i THEN <<Head(samples)[2]>> ELSE <<>>)
         \o TuplesFor(Tail(samples), i)

\* a is the sequence b or a beginning of it
IsPrefix(a, b) == Len(a) <= Len(b) /\ a = SubSeq(b, 1, Len(a))

\* C24: for every tracker of a session's snapshot, the rendering process's
\* copy of its data is the snapshot's data followed by a beginning of the
\* tuples the main process has put on the session's queue for that id, in
\* the order they were put; and when the process takes the stop signal and
\* terminates, the copy holds all of them.
C24_LocalDataIsSnapshotPlusSent ==
    /\ [](\A n \in 1..Len(sessions) :
             sessions[n].state = "running" =>
                 \A i \in DOMAIN sessions[n].snapshot :
                     LET local == sessions[n].id_to_tracker[i]
                         snap == sessions[n].snapshot[i]
                     IN  /\ IsPrefix(snap, local)
                         /\ IsPrefix(SubSeq(local, Len(snap) + 1, Len(local)),
                                     TuplesFor(sessions[n].enq, i)))
    /\ [][ \A n \in 1..Len(sessions) :
               (sessions[n].state = "running" /\ sessions'[n].state = "done") =>
                   \A i \in DOMAIN sessions[n].snapshot :
                       sessions[n].id_to_tracker[i] =
                           sessions[n].snapshot[i] \o TuplesFor(sessions[n].enq, i)
         ]_vars

\* C24 witness: a process that started with one tuple of a tracker has
\* appended two more that were put on its queue.
C24_Witness ==
    \E n \in 1..Len(sessions) :
        /\ sessions[n].state = "running"
        /\ \E i \in DOMAIN sessions[n].snapshot :
               /\ Len(sessions[n].snapshot[i]) = 1
               /\ Len(sessions[n].id_to_tracker[i]) = 3
               /\ Len(TuplesFor(sessions[n].enq, i)) = 2

\* C25: once the stop signal is on a session's queue, the rendering process
\* terminates, whatever is queued ahead of the signal, and the
\* close_live_view call that waits for it returns.
C25_StopSignalTerminates ==
    /\ \A n \in 1..MaxSessions :
           (n <= Len(sessions) /\ sessions[n].stop_sent)
               ~> (n <= Len(sessions) /\ sessions[n].state = "done")
    /\ (pc = "join") ~> (pc = "idle" /\ live_view_process = None)

\* C25 witness: close_live_view has put the stop signal behind two samples
\* the process has not taken yet, and waits in join.
C25_Witness ==
    /\ pc = "join"
    /\ sessions[live_view_process].state = "running"
    /\ Len(sessions[live_view_process].queue) = 3
    /\ Last(sessions[live_view_process].queue) = NoneMsg

\* C26: a rendering process terminates only by taking the stop signal: a
\* process that has terminated was sent the signal, the step that ends it
\* takes None from the queue, and taking a sample (the sample (0, (0, 0))
\* of tracker id 0 too) leaves it running.
C26_OnlyStopSignalEndsLoop ==
    /\ [](\A n \in 1..Len(sessions) :
             sessions[n].state = "done" => sessions[n].stop_sent)
    /\ [][ \A n \in 1..Len(sessions) :
               /\ (sessions[n].state = "running" /\ sessions'[n].state = "done") =>
                      /\ sessions[n].queue # <<>>
                      /\ Head(sessions[n].queue) = NoneMsg
               /\ (sessions[n].state = "running" /\ sessions[n].queue # <<>>
                      /\ Head(sessions[n].queue) # NoneMsg
                      /\ sessions'[n].queue = Tail(sessions[n].queue)) =>
                      sessions'[n].state = "running"
         ]_vars

\* C26 witness: a process has taken the sample (0, (0, 0)) and runs on; no
\* stop signal was sent to it.
C26_Witness ==
    \E n \in 1..Len(sessions) :
        /\ sessions[n].state = "running"
        /\ ~sessions[n].stop_sent
        /\ sessions[n].received = <<0>>
        /\ 0 \in DOMAIN sessions[n].id_to_tracker
        /\ sessions[n].id_to_tracker[0] = <<<<0, 0>>>>

\* C27: when a rendering process takes a sample whose id is not in its
\* snapshot, nothing of its state changes but the queue: the local data, the
\* trackers of the chart, the subplots and their limits and the figure are
\* as before (no rebuild); and a sample of a known tracker taken afterwards
\* is appended to that tracker's local data like any other.
C27_UnknownIdIgnored ==
    [][ \A n \in 1..Len(sessions) :
           (/\ sessions[n].state = "running"
            /\ sessions[n].queue # <<>>
            /\ Head(sessions[n].queue) # NoneMsg
            /\ sessions'[n].queue = Tail(sessions[n].queue)) =>
               LET info == Head(sessions[n].queue)
               IN  IF info[1] \in DOMAIN sessions[n].snapshot
                   THEN sessions'[n].id_to_tracker[info[1]] =
                            sessions[n].id_to_tracker[info[1]] \o <<info[2]>>
                   ELSE sessions'[n] = [sessions[n] EXCEPT !.queue = Tail(@),
                                                           !.received = Append(@, info[1])]
      ]_vars

\* C27 witness: a process has taken the sample of a tracker made after it
\* started and then a sample of a tracker it knows, which is in its data.
C27_Witness ==
    \E n \in 1..Len(sessions) :
        /\ sessions[n].state = "running"
        /\ Len(sessions[n].received) = 2
        /\ sessions[n].received[1] \notin DOMAIN sessions[n].snapshot
        /\ sessions[n].received[2] \in DOMAIN sessions[n].snapshot
        /\ Len(sessions[n].id_to_tracker[sessions[n].received[2]]) =
               Len(sessions[n].snapshot[sessions[n].received[2]]) + 1
        /\ sessions[n].trackers = <<sessions[n].received[2]>>

\* C28: a call of open_live_view, returning or raising, leaves every
\* Tracker's reference to the Monitor and Monitor.toggles as they were
\* before the call.
C28_OpenLiveViewRestores ==
    [][ OpenLiveView =>
            /\ \A k \in 1..Len(trackers) : trackers'[k].monitor = trackers[k].monitor
            /\ monitor_toggles' = monitor_toggles
      ]_vars

\* C29: the Monitor copy a rendering process is given holds no Toggle
\* object (toggles, live_view_toggle and plot_toggle are None), no process
\* handle (live_view_process is None), and none of its Trackers refers to a
\* Monitor.
C29_CopyHoldsNoHandles ==
    \A n \in 1..Len(sessions) :
        sessions[n].state = "running" =>
            /\ sessions[n].copy.toggles = "None"
            /\ sessions[n].copy.live_view_toggle = "None"
            /\ sessions[n].copy.plot_toggle = "None"
            /\ sessions[n].copy.live_view_process = "None"
            /\ \A k \in 1..Len(sessions[n].copy.tracker_monitors) :
                   sessions[n].copy.tracker_monitors[k] = "None"

\* C30: open_live_view on a Monitor made with enable_toggles=False opens a
\* session as it does with toggles: the call returns, a rendering process
\* is started and the Monitor holds its queue and its handle.
C30_QuietOpenLiveViewOpens ==
    [][ (~enable_toggles /\ OpenLiveView) =>
            /\ ret' = "none"
            /\ Len(sessions') = Len(sessions) + 1
            /\ Last(sessions').state = "running"
            /\ live_view_queue' = Len(sessions')
            /\ live_view_process' = Len(sessions')
      ]_vars

\* C31: a Tracker.update that fails with the arity error changes nothing
\* but what the call raised: no line is appended to the autosave file, no
\* sample is put on the live-view queue, no press is taken from a toggle
\* (counter and tally as before), no session is opened or closed, and the
\* main process is where it was.
C31_ArityErrorHasNoSideEffect ==
    [][ \/ pc # "idle"
        \/ /\ ret' = "Exception"
           /\ UNCHANGED <<toggleVars, winVars, pc, tgObj, tgRead, tgCaller, histVars,
                          monVars>>
        \/ \A t \in 1..Len(trackers), n \in OneArgCounts :
               ~(n # trackers[t].ndep /\ Update(t, DataCount(trackers), n))
      ]_vars

\* C31 witness: an update has failed with the arity error while the autosave
\* file holds a line, a session is open with a sample on its queue, and a
\* press of the live-view button is pending.
C31_Witness ==
    /\ pc = "idle"
    /\ ret = "Exception"
    /\ \E f \in files : f.content # <<>>
    /\ is_set(live_view_queue)
    /\ sessions[live_view_queue].state = "running"
    /\ sessions[live_view_queue].queue # <<>>
    /\ CounterOf(LvToggle) > 0

\* the toggle_count of a Toggle of the list ts
TallyOf(ts, k) == ts[k].toggle_count

\* C32: an update observes at most one press of the live-view toggle and at
\* most one of the plot toggle.  The tally of the live-view toggle grows only
\* in the toggle check's call of line 767 and by one, the tally of the plot
\* toggle only in the call of line 774 and by one; each call is reached once
\* in an update (the first from the update's own steps, the second from the
\* first call and what it triggers).  A counter is lowered only by the write
\* of toggled() on that Toggle, to one less than the value toggled() read.
\* Nothing the main process does in an update changes the tally or the
\* counter of a Toggle the program added.  So after n updates at most n
\* presses of a built-in toggle were observed.
C32_OnePressPerToggleAndUpdate ==
    /\ [](\A k \in {LvToggle, PlotToggle} : TallyOf(toggles, k) <= DataCount(trackers))
    /\ [][ /\ TallyOf(toggles', LvToggle) # TallyOf(toggles, LvToggle) =>
                  /\ pc = "rf_lv"
                  /\ TallyOf(toggles', LvToggle) = TallyOf(toggles, LvToggle) + 1
           /\ TallyOf(toggles', PlotToggle) # TallyOf(toggles, PlotToggle) =>
                  /\ pc = "rf_plot"
                  /\ TallyOf(toggles', PlotToggle) = TallyOf(toggles, PlotToggle) + 1
           /\ (pc' = "rf_lv" /\ pc # "rf_lv") =>
                  /\ pc \in {"idle", "append"}
                  /\ pc = "idle" => DataCount(trackers') = DataCount(trackers) + 1
           /\ (pc' = "rf_plot" /\ pc # "rf_plot") => pc \in {"rf_lv", "lv_act", "join"}
           /\ pc \in {"rf_plot", "plot_act"} => pc' \notin {"rf_lv", "lv_act", "join"}
           /\ \A k \in 1..Len(toggles) :
                  CounterOf(k) > At(counts', toggles[k].id) =>
                      /\ pc = "tg_write"
                      /\ tgObj = k
                      /\ k \in {LvToggle, PlotToggle}
                      /\ At(counts', toggles[k].id) = tgRead - 1
                      /\ CounterOf(k) = tgRead => At(counts', toggles[k].id) = CounterOf(k) - 1
           /\ \A k \in 1..Len(toggles) \ {LvToggle, PlotToggle} :
                  /\ TallyOf(toggles', k) = TallyOf(toggles, k)
                  /\ At(counts', toggles[k].id) # CounterOf(k) => wpc = "pressing"
         ]_vars

\* C32 witness: two presses of the live-view button were pending; one update
\* has run its toggle check and observed one of them, the other is still
\* pending.
C32_Witness ==
    /\ pc = "idle"
    /\ wpc = "idle"
    /\ DataCount(trackers) = 1
    /\ presses[LvToggle] = 2
    /\ TallyOf(toggles, LvToggle) = 1
    /\ CounterOf(LvToggle) = 1

\* the most instructions a program of the model sends
MaxSent == MaxToggles + MaxCloses

\* C33 as stated: every instruction sent while the window process is running
\* is eventually applied.
C33_EverySentIsApplied ==
    \A i \in 1..MaxSent :
        (Len(sent) >= i /\ window = "open") ~> (Len(applied) >= i)

\* C33: the instructions sent are the ones applied followed by the ones
\* still queued, and the queue is emptied again and again unless the window
\* is destroyed: so every instruction sent is eventually applied unless the
\* window is destroyed first (by the CLOSE of the last open button, ahead of
\* it in the queue).  A refresh that applies an instruction applies all that
\* are pending, up to the CLOSE that destroys the window.
C33_AppliedUnlessDestroyed ==
    /\ [](applied \o in_q = sent)
    /\ []<>(in_q = <<>> \/ window = "destroyed")
    /\ [][ applied' # applied =>
               \/ in_q' = <<>> /\ applied' = sent
               \/ /\ window' = "destroyed"
                  /\ Last(applied')[1] = CLOSE
                  /\ \A b \in 1..Len(closed') : closed'[b]
         ]_vars

\* C33 witness: three instructions were pending at a refresh, which applied
\* them all; the window is still open.
C33_Witness ==
    /\ window = "open"
    /\ Len(sent) = 3
    /\ applied = sent
    /\ in_q = <<>>
    /\ Len(buttons) = 2
    /\ closed = <<FALSE, TRUE>>

\* C34: once the window is destroyed no refresh is scheduled, and no step
\* changes what the window process owns: no instruction is applied, no
\* button is made, closed, disabled or pressed (no counter grows), the window
\* stays destroyed; the instruction queue only grows, by what the main
\* process sends.
C34_DestroyedIsTerminal ==
    /\ [](window = "destroyed" => ~ENABLED Refresh)
    /\ [][ window = "destroyed" =>
               /\ UNCHANGED <<winVars, applied>>
               /\ \A b \in 1..Len(presses) : presses'[b] = presses[b]
               /\ Len(in_q') >= Len(in_q)
               /\ SubSeq(in_q', 1, Len(in_q)) = in_q
               /\ \A i \in 1..Len(counts) : counts'[i] = counts[i]
         ]_vars

\* C34 witness: the window was destroyed by the CLOSE of its only button;
\* three instructions sent since then are in the queue.
C34_Witness ==
    /\ window = "destroyed"
    /\ applied = <<<<CLOSE, 0>>>>
    /\ Len(in_q) = 3
    /\ in_q[1] = <<ADD>>

\* the presses of Toggle k that are pending or were observed: its counter
\* and its tally, less the press a running toggled() has tallied and not
\* yet taken from the counter
Accounted(cs, ts, p, obj, k) ==
    At(cs, ts[k].id) + ts[k].toggle_count
        - (IF p \in {"tg_read", "tg_write"} /\ obj = k THEN 1 ELSE 0)

\* C35: once the CLOSE of a Toggle is applied its closed flag stays true, its
\* counter never grows and no press of its button finishes; toggled() on it
\* returns True while its counter is positive, and every press pending at
\* the close is observed or still pending (counter plus tally is constant).
C35_ClosedStaysClosed ==
    [][ \A k \in 1..Len(closed) :
            closed[k] =>
                /\ closed'[k]
                /\ At(counts', toggles[k].id) <= CounterOf(k)
                /\ presses'[k] = presses[k]
                /\ Accounted(counts', toggles', pc', tgObj', k)
                       = Accounted(counts, toggles, pc, tgObj, k)
                /\ (CounterOf(k) > 0 /\ polls'[k] = polls[k] + 1) => pc' = "tg_read"
                /\ (pc = "tg_write" /\ tgObj = k /\ pc' = "idle") => ret' = "True"
      ]_vars

\* C36: a send of the main process never waits.  The close() calls of
\* close_toggles, the ADD of a Toggle the Monitor adds and an update with its
\* enqueue can each be taken whenever the main process has reached them,
\* whatever the window process and the rendering processes are doing and
\* however long the queues are; the step puts one entry at the end of the
\* queue, changes nothing the receiving process owns, and the main process
\* goes on (it waits in the join of close_live_view only).
C36_SendingNeverBlocks ==
    /\ [](pc = "closing" => ENABLED CloseToggles)
    /\ []((pc = "idle" /\ Len(toggles) < MaxMonitorToggles) => ENABLED AddToggle)
    /\ []((pc = "idle" /\ DataCount(trackers) < MaxUpdates) =>
              \A t \in 1..Len(trackers) :
                  ENABLED Update(t, DataCount(trackers), trackers[t].ndep))
    /\ [](pc = "rf_lv" => ENABLED RefreshLv)
    /\ [][ /\ Len(in_q') > Len(in_q) =>
                  /\ in_q' = Append(in_q, Last(sent'))
                  /\ pc' \in {"idle", "closing"}
                  /\ UNCHANGED <<winVars, applied>>
           /\ \A n \in 1..Len(sessions) :
                  Len(sessions'[n].queue) > Len(sessions[n].queue) =>
                      /\ sessions' = [sessions EXCEPT ![n].queue = Append(@, Last(sessions'[n].queue)),
                                                      ![n].enq = sessions'[n].enq,
                                                      ![n].stop_sent = sessions'[n].stop_sent]
                      /\ pc' \in {"rf_lv", "join"}
         ]_vars

\* C36 witness: the Monitor was finalized and the window is destroyed, a
\* Toggle added since has put its ADD on the instruction queue; and a
\* rendering process that has taken nothing yet has two samples queued.
C36_Witness ==
    /\ finalized
    /\ window = "destroyed"
    /\ in_q = <<<<ADD>>>>
    /\ \E n \in 1..Len(sessions) :
           /\ sessions[n].state = "running"
           /\ sessions[n].received = <<>>
           /\ Len(sessions[n].queue) = 2

\* One finished press of the live-view button is pending while the main
\* process is outside toggled(), the program has a Tracker and an update
\* still to make, and (a bound of the model) a session can still be started.
OnePressPending ==
    /\ wpc = "idle"
    /\ pc \in {"idle", "rf_lv", "rf_plot"}
    /\ CounterOf(LvToggle) = 1
    /\ Len(trackers) > 0
    /\ DataCount(trackers) < MaxUpdates
    /\ Len(sessions) < MaxSessions

\* C37 as stated: a press pending while no session is open leads to an open
\* session, and a press pending while a session is open leads to that
\* session's end.
C37_PressOpensOrCloses ==
    /\ (OnePressPending /\ ~is_set(live_view_queue)) ~> is_set(live_view_queue)
    /\ \A n \in 1..MaxSessions :
           (OnePressPending /\ live_view_queue = n)
               ~> (n <= Len(sessions) /\ sessions[n].state = "done")

\* C37: as long as updates keep occurring, a press pending while no session
\* is open and toggle_count is even leads to an open session; and a press
\* pending while a session (opened by the toggle) is open leads to the end
\* of that session and to no session being open.
C37_PressOpensOnEvenTally ==
    /\ (OnePressPending /\ ~is_set(live_view_queue)
           /\ ~Odd(toggles[LvToggle].toggle_count)) ~> is_set(live_view_queue)
    /\ \A n \in 1..MaxSessions :
           (OnePressPending /\ live_view_queue = n)
               ~> (n <= Len(sessions) /\ sessions[n].state = "done")
    /\ (OnePressPending /\ is_set(live_view_queue)) ~> ~is_set(live_view_queue)

\* C37 witness: the second press was consumed by an update's check, which
\* has closed the session the first press had opened.
C37_Witness ==
    /\ pc = "idle"
    /\ presses[LvToggle] = 2
    /\ toggles[LvToggle].toggle_count = 2
    /\ CounterOf(LvToggle) = 0
    /\ Len(sessions) = 1
    /\ sessions[1].state = "done"
    /\ ~is_set(live_view_queue)
    /\ DataCount(trackers) = 2

RECURSIVE Flatten(_)
Flatten(figs) == IF figs = <<>> THEN <<>> ELSE Head(figs) \o Flatten(Tail(figs))

\* the Trackers a subplot shows
Shown(p) == {p.trackers[i] : i \in 1..Len(p.trackers)}

\* the titles of the Monitor's titled groups and the Trackers under one
Titles == {trackers[i].title : i \in 1..Len(trackers)} \ {"no_title"}

Titled(title) == {trackers[i]._id : i \in {j \in 1..Len(trackers) : trackers[j].title = title}}

\* the independent-variable names of the untitled Trackers and the untitled
\* Trackers of one name
UntitledNames ==
    {trackers[i].ind_var_name : i \in {j \in 1..Len(trackers) : trackers[j].title = "no_title"}}

Untitled(name) ==
    {trackers[i]._id : i \in {j \in 1..Len(trackers) :
                                  /\ trackers[j].title = "no_title"
                                  /\ trackers[j].ind_var_name = name}}

\* C39: a plot call is made exactly by the step that follows an update's
\* check observing the plot toggle as toggled, and it is one call; its plots
\* are one per title of the Monitor, showing the Trackers under the title,
\* and one per independent-variable name of the untitled Trackers, showing
\* exactly the untitled Trackers of that name, and no other plot.
C39_PlotRequestPlotsEveryGroup ==
    [][ /\ (pc = "plot_act" /\ pc' # "plot_act") <=> plots' # plots
        /\ plots' # plots =>
               /\ Len(plots') = Len(plots) + 1
               /\ SubSeq(plots', 1, Len(plots)) = plots
               /\ LET ps == Flatten(plots'[Len(plots')])
                  IN  /\ Len(ps) = Cardinality(Titles) + Cardinality(UntitledNames)
                      /\ \A i \in 1..Len(ps) : Len(ps[i].trackers) = Cardinality(Shown(ps[i]))
                      /\ \A title \in Titles : \E i \in 1..Len(ps) :
                             ps[i].title = title /\ Shown(ps[i]) = Titled(title)
                      /\ \A name \in UntitledNames : \E i \in 1..Len(ps) :
                             ps[i].title = "" /\ Shown(ps[i]) = Untitled(name) ]_vars

\* a plot call was made for a titled group and nine names of untitled
\* Trackers, one name with two Trackers: ten plots in two figures
C39_Witness ==
    \E r \in 1..Len(plots) :
        /\ Len(plots[r]) = 2
        /\ Len(Flatten(plots[r])) = 10
        /\ \E i \in 1..9 : Len(plots[r][1][i].trackers) = 2 /\ plots[r][1][i].title = ""

=============================================================================
